---- MODULE Spec2Model ----
(***************************************************************************)
(* A model of backpak's storage access layer and index rebuild.            *)
(*                                                                         *)
(* Part 1 models ui/rebuild_index.rs: the main thread of `run`, the        *)
(* parallel pack scanners, the indexer thread, the uploader, and a         *)
(* concurrent backup writer, over a repository of packs and indexes.       *)
(*                                                                         *)
(* Part 2 models backend.rs: CachedBackend's read, write and remove in its *)
(* three modes, call by call, over a backend store and a size-bounded      *)
(* cache, for one caller or two concurrent ones, and the free functions of *)
(* backend.rs (destination, probe_pack, read_config, open), each applied   *)
(* to inputs drawn from bounded sets.                                      *)
(*                                                                         *)
(* Part 3 models diff.rs: compare_trees and compare_nodes over small trees *)
(* and forests, the callbacks recorded as a sequence of events.            *)
(***************************************************************************)
EXTENDS Integers, Sequences, FiniteSets, TLC

\* ------------------------------------------------------------------ bounds

\* Packs present in the repository when the rebuild starts: a subset of 1..MaxInitPacks.
MaxInitPacks == 2
\* Indexes present in the repository when the rebuild starts: at most this many.
MaxInitIndexes == 2
\* Packs the concurrent backup writer uploads before its index.
MaxWriterPacks == 1
\* Capacity of the pack queue (num_cpus::get_physical() on the machine).
QueueCap == 1
\* Items the parallel iterator works on at the same time.
NumScanners == 2

InitPackIds == 1..MaxInitPacks
WriterPacks == (MaxInitPacks + 1)..(MaxInitPacks + MaxWriterPacks)
PackIds == InitPackIds \cup WriterPacks

\* ------------------------------------------------------------------ state

VARIABLES
    \* the repository (the backend's objects under packs/ and indexes/)
    packs,          \* set of pack ids
    indexes,        \* set of index objects [packs, supersedes]; an index's id is its content
    \* the run's argument and the repository as it was when the run started
    dry_run,
    packs0,
    indexes0,
    \* main thread of run()
    pc,             \* position in run()
    err,            \* "" or the stage whose error run() returned
    superseded,     \* the BTreeSet built from list_indexes()
    upload_ret,     \* "none" | "ok" | "err": what upload::upload returned
    join_ret,       \* "none" | "true" | "false" | "err": what indexer.join() gave
    toRemove,       \* the part of `superseded` the retire loop has not consumed
    removeCalls,    \* number of remove_index calls made so far
    uploaded,       \* index objects the uploader wrote to the backend
    \* parallel scan
    scanTodo,       \* listed packs no task has taken yet
    scanBusy,       \* packs whose manifest is loaded and whose send is pending
    scanFailed,     \* "" or the first error of a scan task
    \* channels
    pack_q,         \* the bounded pack queue
    tx_open,        \* some pack_tx clone is still alive
    upload_msg,     \* what the uploader received and has not written yet (0 or 1 item)
    \* indexer thread
    ipc,
    index_packs,    \* packs of the index under construction
    \* concurrent backup writer
    wpc,
    \* CachedBackend: how it was opened
    mode,           \* "File" | "Cached" | "Memory": the CachedBackendKind
    behavior,       \* "Normal" | "AlwaysRead": the CacheBehavior
    cache_size,     \* the cache's size budget
    \* CachedBackend: the stores and the counters
    store,          \* the backend's objects: key -> bytes
    cache,          \* the cache's entries [name, data], least recently used first
    bytes_downloaded,
    bytes_uploaded,
    \* CachedBackend: its callers
    tpc,            \* per thread: the call it is at within read/write/remove
    top,            \* per thread: the operation under way [op, name, data]
    tloc,           \* per thread: the bytes backend.read handed to read()
    nops,           \* number of operations started
    bound,          \* per name: the bytes the name stands for, once written
    log,            \* the operations that returned, in order, with their results
    \* free functions
    fcall,          \* the call: [fn, ..arguments..]
    fret            \* <<>> until the call ends, then <<its outcome>>

repoVars == <<packs, indexes>>
paramVars == <<dry_run, packs0, indexes0>>
mainVars == <<pc, err, superseded, upload_ret, join_ret, toRemove, removeCalls, uploaded>>
scanVars == <<scanTodo, scanBusy, scanFailed>>
chanVars == <<pack_q, tx_open, upload_msg>>
idxVars == <<ipc, index_packs>>
rbVars == <<repoVars, paramVars, mainVars, scanVars, chanVars, idxVars, wpc>>

openVars == <<mode, behavior, cache_size>>
dataVars == <<store, cache, bytes_downloaded, bytes_uploaded>>
callVars == <<tpc, top, tloc, nops, bound, log>>
cbVars == <<openVars, dataVars, callVars>>

\* A call of one of the free functions of backend.rs and diff.rs.
fnVars == <<fcall, fret>>

vars == <<rbVars, cbVars, fnVars>>

\* ------------------------------------------------------------------ helpers

\* Backend keys of the listing: (prefix, id, extension).
PackKey(p) == <<"packs", p, "pack">>
IndexKey(i) == <<"indexes", i, "index">>

\* backend::id_from_path: the file stem of the key, parsed as an object id.
id_from_path(key) == key[2]

\* CachedBackend::list_indexes / list_packs: the keys under the prefix.
list_indexes == {IndexKey(i) : i \in indexes}
list_packs == {PackKey(p) : p \in packs}

\* The index the rebuild starts from: only `supersedes` is set.
Replacing(S) == [packs |-> {}, supersedes |-> S]

\* The index the indexer hands to the uploader.
NewIndex == [Replacing(superseded) EXCEPT !.packs = index_packs]

\* The index a backup writer uploads after its packs.
WriterIndex == [packs |-> WriterPacks, supersedes |-> {}]

\* upload::Mode chosen from args.dry_run.
Umode_AlwaysDryRun == "DryRun"

Umode == IF dry_run THEN "DryRun" ELSE "LiveFire"

\* The threads' ends of the channels.
IndexerExited == ipc \in {"done_true", "done_false", "err"}
RunReturned == pc = "done"

\* Outcomes of CachedBackend::write as the uploader sees them: the object is stored
\* and Ok returned; an error before anything is stored; an error after the backend
\* stored the object (the cache insert, the prune or the temp file removal failed).
WriteOutcomes == {"ok", "err", "err_stored"}

\* run() returns: every channel end it owns is dropped.
Return(e) ==
    /\ pc' = "done"
    /\ err' = e
    /\ tx_open' = FALSE

\* ------------------------------------------------------------------ Init

\* Indexes a repository holding the packs P can have before any rebuild: each covers
\* some of the packs, or none of them, and supersedes nothing.
InitIndexes(P) == {[packs |-> s, supersedes |-> {}] : s \in SUBSET P}

RbInit ==
    /\ packs \in SUBSET InitPackIds
    /\ indexes \in SUBSET InitIndexes(packs)
    /\ Cardinality(indexes) <= MaxInitIndexes
    /\ dry_run \in BOOLEAN
    /\ packs0 = packs
    /\ indexes0 = indexes
    /\ pc = "list_indexes"
    /\ err = ""
    /\ superseded = {}
    /\ upload_ret = "none"
    /\ join_ret = "none"
    /\ toRemove = {}
    /\ removeCalls = 0
    /\ uploaded = {}
    /\ scanTodo = {}
    /\ scanBusy = {}
    /\ scanFailed = ""
    /\ pack_q = <<>>
    /\ tx_open = TRUE
    /\ upload_msg = {}
    /\ ipc = "unspawned"
    /\ index_packs = {}
    /\ wpc = "packs"

\* ------------------------------------------------------------------ main thread

\* Stage 1: list_indexes()?, ids collected into `superseded`; then the channels are
\* made and the indexer thread is spawned.
ListIndexes ==
    /\ pc = "list_indexes"
    /\ \E ok \in BOOLEAN :
        IF ok
        THEN /\ superseded' = {id_from_path(k) : k \in list_indexes}
             /\ pc' = "list_packs"
             /\ ipc' = "recv"
             /\ UNCHANGED <<err, tx_open>>
        ELSE /\ Return("list_indexes")
             /\ UNCHANGED <<superseded, ipc>>
    /\ UNCHANGED <<repoVars, paramVars, cbVars, fnVars, upload_ret, join_ret, toRemove, removeCalls,
                   uploaded, scanVars, pack_q, upload_msg, index_packs, wpc>>

\* Stage 2, first half: list_packs()?
ListPacks ==
    /\ pc = "list_packs"
    /\ \E ok \in BOOLEAN :
        IF ok
        THEN /\ scanTodo' = list_packs
             /\ pc' = "scan"
             /\ UNCHANGED <<err, tx_open>>
        ELSE /\ Return("list_packs")
             /\ UNCHANGED scanTodo
    /\ UNCHANGED <<repoVars, paramVars, cbVars, fnVars, superseded, upload_ret, join_ret, toRemove,
                   removeCalls, uploaded, scanBusy, scanFailed, pack_q, upload_msg,
                   idxVars, wpc>>

\* A scan task: id_from_path(pack_file)? and pack::load_manifest(&id, ..)?
ScanLoad(k) ==
    /\ pc = "scan"
    /\ k \in scanTodo
    /\ Cardinality(scanBusy) < NumScanners
    /\ scanTodo' = scanTodo \ {k}
    /\ \E ok \in BOOLEAN :
        IF ok /\ id_from_path(k) \in packs
        THEN /\ scanBusy' = scanBusy \cup {id_from_path(k)}
             /\ UNCHANGED scanFailed
        ELSE /\ scanFailed' = IF scanFailed = "" THEN "load_manifest" ELSE scanFailed
             /\ UNCHANGED scanBusy
    /\ UNCHANGED <<repoVars, paramVars, cbVars, fnVars, mainVars, chanVars, idxVars, wpc>>

\* A scan task: pack_tx.send(metadata), which blocks while the queue is full and
\* fails once the indexer has dropped pack_rx.
ScanSend(p) ==
    /\ pc = "scan"
    /\ p \in scanBusy
    /\ IF IndexerExited
       THEN /\ scanFailed' = IF scanFailed = "" THEN "send" ELSE scanFailed
            /\ UNCHANGED pack_q
       ELSE /\ Len(pack_q) < QueueCap
            /\ pack_q' = Append(pack_q, p)
            /\ UNCHANGED scanFailed
    /\ scanBusy' = scanBusy \ {p}
    /\ UNCHANGED <<repoVars, paramVars, cbVars, fnVars, mainVars, scanTodo, tx_open, upload_msg,
                   idxVars, wpc>>

\* try_for_each_with returning with a clone of pack_tx still alive.
ScanReturn_KeepsSender ==
    /\ pc = "scan"
    /\ scanBusy = {}
    /\ scanTodo = {} \/ scanFailed # ""
    /\ IF scanFailed = ""
       THEN /\ pc' = "upload"
            /\ UNCHANGED <<err, tx_open>>
       ELSE Return(scanFailed)
    /\ UNCHANGED <<repoVars, paramVars, cbVars, fnVars, superseded, upload_ret, join_ret, toRemove,
                   removeCalls, uploaded, scanVars, pack_q, upload_msg, idxVars, wpc>>

\* try_for_each_with(..)? returns: every started task has ended, and either no pack
\* is left or a task failed (the packs not yet taken are then skipped). pack_tx
\* and its clones are gone.
ScanReturn ==
    /\ pc = "scan"
    /\ scanBusy = {}
    /\ scanTodo = {} \/ scanFailed # ""
    /\ IF scanFailed = ""
       THEN /\ pc' = "upload"
            /\ tx_open' = FALSE
            /\ UNCHANGED err
       ELSE Return(scanFailed)
    /\ UNCHANGED <<repoVars, paramVars, cbVars, fnVars, superseded, upload_ret, join_ret, toRemove,
                   removeCalls, uploaded, scanVars, pack_q, upload_msg, idxVars, wpc>>

\* upload::upload(..)?: whether a write outcome ends the run with an error.
UploadFailed_Never(out) == FALSE

UploadFailed(out) == out # "ok"

\* upload::upload, one received item: written through the CachedBackend in LiveFire
\* mode, dropped in DryRun mode.
UploadFile ==
    /\ pc = "upload"
    /\ upload_msg # {}
    /\ \E idx \in upload_msg, out \in WriteOutcomes :
        IF Umode = "DryRun"
        THEN /\ out = "ok"
             /\ upload_msg' = {}
             /\ UNCHANGED <<indexes, uploaded, pc, err, upload_ret, tx_open>>
        ELSE /\ indexes' = IF out = "err" THEN indexes ELSE indexes \cup {idx}
             /\ uploaded' = IF out = "err" THEN uploaded ELSE uploaded \cup {idx}
             /\ IF UploadFailed(out)
                THEN /\ Return("upload")
                     /\ upload_ret' = "err"
                     /\ UNCHANGED upload_msg
                ELSE /\ upload_msg' = {}
                     /\ UNCHANGED <<pc, err, upload_ret, tx_open>>
    /\ UNCHANGED <<packs, paramVars, cbVars, fnVars, superseded, join_ret, toRemove, removeCalls,
                   scanVars, pack_q, idxVars, wpc>>

\* upload::upload returns Ok: the indexer has dropped upload_tx and nothing is left.
UploadReturn ==
    /\ pc = "upload"
    /\ upload_msg = {}
    /\ IndexerExited
    /\ upload_ret' = "ok"
    /\ pc' = "join"
    /\ UNCHANGED <<repoVars, paramVars, cbVars, fnVars, err, superseded, join_ret, toRemove,
                   removeCalls, uploaded, scanVars, chanVars, idxVars, wpc>>

\* What indexer.join().unwrap() yields for the indexer's final position.
JoinResult == CASE ipc = "done_true" -> "true"
                [] ipc = "done_false" -> "false"
                [] OTHER -> "err"

\* ensure!(indexer.join().unwrap()?, "No new index built"): the stage the run fails
\* in, or "" when a new index was built.
EnsureBuilt_Ignored(res) == ""

EnsureBuilt_FalseAccepted(res) == CASE res \in {"true", "false"} -> ""
                                    [] OTHER -> "indexer"

EnsureBuilt(res) == CASE res = "true" -> ""
                      [] res = "false" -> "no_index"
                      [] OTHER -> "indexer"

\* if !args.dry_run { for old_index in superseded { .. } }
RetireSet_Always == superseded

RetireSet_AllPresent == IF dry_run THEN {} ELSE indexes \ uploaded

RetireSet == IF dry_run THEN {} ELSE superseded

Join ==
    /\ pc = "join"
    /\ IndexerExited
    /\ join_ret' = JoinResult
    /\ IF EnsureBuilt(JoinResult) = ""
       THEN /\ pc' = "retire"
            /\ toRemove' = RetireSet
            /\ UNCHANGED <<err, tx_open>>
       ELSE /\ Return(EnsureBuilt(JoinResult))
            /\ UNCHANGED toRemove
    /\ UNCHANGED <<repoVars, paramVars, cbVars, fnVars, superseded, upload_ret, removeCalls, uploaded,
                   scanVars, pack_q, upload_msg, idxVars, wpc>>

\* Stage 5, one iteration: cached_backend.remove_index(&old_index)?
Retire(i) ==
    /\ pc = "retire"
    /\ i \in toRemove
    /\ removeCalls' = removeCalls + 1
    /\ \E ok \in BOOLEAN :
        IF ok
        THEN /\ indexes' = indexes \ {i}
             /\ toRemove' = toRemove \ {i}
             /\ UNCHANGED <<pc, err, tx_open>>
        ELSE /\ Return("remove")
             /\ UNCHANGED <<indexes, toRemove>>
    /\ UNCHANGED <<packs, paramVars, cbVars, fnVars, superseded, upload_ret, join_ret, uploaded,
                   scanVars, pack_q, upload_msg, idxVars, wpc>>

\* The loop is over (or was skipped): Ok(())
RunOk ==
    /\ pc = "retire"
    /\ toRemove = {}
    /\ Return("")
    /\ UNCHANGED <<repoVars, paramVars, cbVars, fnVars, superseded, upload_ret, join_ret, toRemove,
                   removeCalls, uploaded, scanVars, pack_q, upload_msg, idxVars, wpc>>

\* ------------------------------------------------------------------ indexer thread

\* index::index, one received pack: added to the index; a pack seen twice is an error.
IndexerRecv ==
    /\ ipc = "recv"
    /\ pack_q # <<>>
    /\ pack_q' = Tail(pack_q)
    /\ IF Head(pack_q) \in index_packs
       THEN /\ ipc' = "err"
            /\ UNCHANGED index_packs
       ELSE /\ index_packs' = index_packs \cup {Head(pack_q)}
            /\ UNCHANGED ipc
    /\ UNCHANGED <<repoVars, paramVars, cbVars, fnVars, mainVars, scanVars, tx_open, upload_msg, wpc>>

\* The queue is empty and closed: with no pack indexed the indexer reports false,
\* otherwise it goes on to send the serialized index.
IndexerFinalize ==
    /\ ipc = "recv"
    /\ pack_q = <<>>
    /\ ~tx_open
    /\ ipc' = IF index_packs = {} THEN "done_false" ELSE "send_upload"
    /\ UNCHANGED <<repoVars, paramVars, cbVars, fnVars, mainVars, scanVars, chanVars, index_packs, wpc>>

\* upload_tx.send on the zero-capacity channel: completes when the uploader receives.
IndexerSend ==
    /\ ipc = "send_upload"
    /\ pc = "upload"
    /\ upload_msg = {}
    /\ upload_msg' = {NewIndex}
    /\ ipc' = "done_true"
    /\ UNCHANGED <<repoVars, paramVars, cbVars, fnVars, mainVars, scanVars, pack_q, tx_open,
                   index_packs, wpc>>

\* upload_tx.send fails: run() has returned and dropped upload_rx.
IndexerSendFail ==
    /\ ipc = "send_upload"
    /\ RunReturned
    /\ ipc' = "err"
    /\ UNCHANGED <<repoVars, paramVars, cbVars, fnVars, mainVars, scanVars, chanVars, index_packs, wpc>>

\* The indexer returns an error of its own (it could not write its temp file).
IndexerFail ==
    /\ ipc = "recv"
    /\ ipc' = "err"
    /\ UNCHANGED <<repoVars, paramVars, cbVars, fnVars, mainVars, scanVars, chanVars, index_packs, wpc>>

\* ------------------------------------------------------------------ backup writer

\* A concurrent backup uploads a pack.
WriterWritePack(p) ==
    /\ wpc = "packs"
    /\ p \in WriterPacks \ packs
    /\ packs' = packs \cup {p}
    /\ UNCHANGED <<indexes, paramVars, cbVars, fnVars, mainVars, scanVars, chanVars, idxVars, wpc>>

\* ... and, strictly after all its packs, its index.
WriterWriteIndex_Early ==
    /\ wpc = "packs"
    /\ indexes' = indexes \cup {WriterIndex}
    /\ wpc' = "done"
    /\ UNCHANGED <<packs, paramVars, cbVars, fnVars, mainVars, scanVars, chanVars, idxVars>>

WriterWriteIndex ==
    /\ wpc = "packs"
    /\ WriterPacks \subseteq packs
    /\ indexes' = indexes \cup {WriterIndex}
    /\ wpc' = "done"
    /\ UNCHANGED <<packs, paramVars, cbVars, fnVars, mainVars, scanVars, chanVars, idxVars>>

\* ================================================================== Part 2
\* ------------------------------------------------------------------ CachedBackend: values

\* Longest object, in bytes.
MaxLen == 2
\* Largest cache budget tried, in bytes.
MaxCacheSize == 2
\* Operations started in one behaviour.
MaxOps == 3

Threads == {1, 2}

\* Flat object names `<id>.<kind>`.
\* read_pack / remove_pack, read_index / remove_index, read_snapshot /
\* remove_snapshot: format!("{}.pack", id) and its siblings.
pack_name(id) == <<id, ".", "pack">>
index_name(id) == <<id, ".", "index">>
snapshot_name(id) == <<id, ".", "snapshot">>

Names == {pack_name("aaaa"), index_name("bbbb")}

\* Object contents: the object of k bytes, each byte k.
Content(k) == [i \in 1..k |-> k]
Contents == {Content(k) : k \in 1..MaxLen}
NoData == <<>>

Modes == {"File", "Cached", "Memory"}
Behaviors == {"Normal", "AlwaysRead"}

\* Strings are sequences of tokens: an id, a "." or a run of letters.
Some(x) == <<x>>
None == <<>>

\* Utf8Path::extension of a name without directories: None for "..", for a name
\* without "." and for a name whose only "." starts it; else what follows the
\* last ".".
extension(src) ==
    LET dots == {i \in 2..Len(src) : src[i] = "."} IN
    IF src = <<".", ".">> \/ dots = {}
    THEN None
    ELSE LET last == CHOOSE i \in dots : \A j \in dots : j <= i
         IN Some(SubSeq(src, last + 1, Len(src)))

\* destination(): `_ => panic!("Unexpected extension on file: {}", src)`
unexpected_extension(src) ==
    extension(src) \notin {Some(<<"pack">>), Some(<<"index">>), Some(<<"snapshot">>)}

\* destination(): the backend key of a flat name, by its extension.
destination_Bare(src) == src

destination_Plural(src) == <<extension(src)[1][1] \o "s", "/">> \o src

destination(src) ==
    CASE extension(src) = Some(<<"pack">>) -> <<"packs", "/">> \o src
      [] extension(src) = Some(<<"index">>) -> <<"indexes", "/">> \o src
      [] extension(src) = Some(<<"snapshot">>) -> <<"snapshots", "/">> \o src

\* ------------------------------------------------------------------ the backend (Backend trait)

\* Backend::write commits the whole object under the key.
backend_write(s, k, d) == [x \in (DOMAIN s) \cup {k} |-> IF x = k THEN d ELSE s[x]]

\* Backend::remove deletes the key.
backend_remove(s, k) == [x \in (DOMAIN s) \ {k} |-> s[x]]

\* ------------------------------------------------------------------ the cache (backend::cache)

CacheNames(c) == {c[i].name : i \in DOMAIN c}
CacheHas(c, n) == n \in CacheNames(c)
CacheData(c, n) == c[CHOOSE i \in DOMAIN c : c[i].name = n].data

RECURSIVE CacheSize(_)
CacheSize(c) == IF c = <<>> THEN 0 ELSE Len(Head(c).data) + CacheSize(Tail(c))

\* Cache::evict: the entry is dropped if there is one.
cache_evict(c, n) == LET Other(e) == e.name # n IN SelectSeq(c, Other)

\* Cache::insert and Cache::insert_file: the entry becomes the most recently used.
cache_insert(c, n, d) == Append(cache_evict(c, n), [name |-> n, data |-> d])

\* Cache::try_read on a hit: the entry becomes the most recently used.
cache_touch(c, n) == cache_insert(c, n, CacheData(c, n))

\* Cache::prune: while the cache is over its budget, the least recently used entry
\* with no open read handle (`open`) is evicted.
RECURSIVE cache_prune(_, _, _)
cache_prune(c, budget, open) ==
    LET victims == {i \in DOMAIN c : c[i].name \notin open} IN
    IF CacheSize(c) <= budget \/ victims = {}
    THEN c
    ELSE LET v == CHOOSE i \in victims : \A j \in victims : i <= j
         IN cache_prune(cache_evict(c, c[v].name), budget, open)

\* ------------------------------------------------------------------ CachedBackend: control

\* read(): `*behavior == CacheBehavior::AlwaysRead` skips the cache lookup.
CacheFirst_Never == FALSE

CacheFirst_Always == TRUE

CacheFirst == behavior # "AlwaysRead"

\* The calls of the Cached arm of read(), in order.
ReadSeq == <<"r_try", "r_fetch", "r_insert", "r_prune">>

\* The calls of the Cached arm of write(), in order.
WriteSeq_InsertFirst == <<"w_insert", "w_backend", "w_prune">>

WriteSeq_CacheOnly == <<"w_insert", "w_prune">>

WriteSeq == <<"w_backend", "w_insert", "w_prune">>

\* The calls of the Cached arm of remove(), in order.
RemoveSeq_BackendOnly == <<"rm_backend">>

RemoveSeq_BackendFirst == <<"rm_backend", "rm_evict">>

RemoveSeq == <<"rm_evict", "rm_backend">>

\* The call that follows `l` in `seq`, or "idle" after the last one.
After(seq, l) ==
    IF \E i \in 1..(Len(seq) - 1) : seq[i] = l
    THEN seq[(CHOOSE i \in 1..(Len(seq) - 1) : seq[i] = l) + 1]
    ELSE "idle"

\* match &self.inner: where an operation starts.
First(op) ==
    CASE mode = "File" /\ op = "read" -> "r_file"
      [] mode = "File" /\ op = "write" -> "w_file"
      [] mode = "Memory" /\ op = "read" -> "r_mem"
      [] mode = "Memory" /\ op = "write" -> "w_mem"
      [] mode \in {"File", "Memory"} /\ op = "remove" -> "rm_fwd"
      [] mode = "Cached" /\ op = "read" -> Head(ReadSeq)
      [] mode = "Cached" /\ op = "write" -> Head(WriteSeq)
      [] mode = "Cached" /\ op = "remove" -> Head(RemoveSeq)

\* The operation of thread t returns: its result is appended to the log.
Finish(t, status, data, hit, dl, ul) ==
    /\ tpc' = [tpc EXCEPT ![t] = "idle"]
    /\ log' = Append(log, [t |-> t, op |-> top[t].op, name |-> top[t].name,
                           arg |-> top[t].data, status |-> status, data |-> data,
                           hit |-> hit, dl |-> dl, ul |-> ul])

\* A call of `seq` returned Ok: on to the next call, or Ok(data) after the last.
Step(t, seq, data, dl, ul) ==
    IF After(seq, tpc[t]) = "idle"
    THEN Finish(t, "ok", data, FALSE, dl, ul)
    ELSE /\ tpc' = [tpc EXCEPT ![t] = After(seq, tpc[t])]
         /\ UNCHANGED log

\* A call returned an error, which `?` passes on.
Fail(t, dl, ul) == Finish(t, "err", NoData, FALSE, dl, ul)

\* ------------------------------------------------------------------ CachedBackend: Init

CbInit ==
    /\ mode \in Modes
    /\ behavior \in IF mode = "Cached" THEN Behaviors ELSE {"Normal"}
    /\ cache_size \in IF mode = "Cached" THEN 1..MaxCacheSize ELSE {MaxCacheSize}
    /\ store = <<>>
    /\ cache = <<>>
    /\ bytes_downloaded = 0
    /\ bytes_uploaded = 0
    /\ tpc = [t \in Threads |-> "idle"]
    /\ top = [t \in Threads |-> [op |-> "none", name |-> CHOOSE n \in Names : TRUE,
                                 data |-> NoData]]
    /\ tloc = [t \in Threads |-> NoData]
    /\ nops = 0
    /\ bound = [n \in Names |-> NoData]
    /\ log = <<>>

\* ------------------------------------------------------------------ CachedBackend: calls

\* A caller starts read(name).
CallRead(t, n) ==
    /\ tpc[t] = "idle"
    /\ nops < MaxOps
    /\ nops' = nops + 1
    /\ top' = [top EXCEPT ![t] = [op |-> "read", name |-> n, data |-> NoData]]
    /\ tpc' = [tpc EXCEPT ![t] = First("read")]
    /\ UNCHANGED <<rbVars, fnVars, openVars, dataVars, tloc, bound, log>>

\* A caller starts write(name, fh). Keys are content hashes: a name is only ever
\* written with the bytes it stands for.
CallWrite(t, n, d) ==
    /\ tpc[t] = "idle"
    /\ nops < MaxOps
    /\ bound[n] \in {NoData, d}
    /\ bound' = [bound EXCEPT ![n] = d]
    /\ nops' = nops + 1
    /\ top' = [top EXCEPT ![t] = [op |-> "write", name |-> n, data |-> d]]
    /\ tpc' = [tpc EXCEPT ![t] = First("write")]
    /\ UNCHANGED <<rbVars, fnVars, openVars, dataVars, tloc, log>>

\* A caller starts remove(name).
CallRemove(t, n) ==
    /\ tpc[t] = "idle"
    /\ nops < MaxOps
    /\ nops' = nops + 1
    /\ top' = [top EXCEPT ![t] = [op |-> "remove", name |-> n, data |-> NoData]]
    /\ tpc' = [tpc EXCEPT ![t] = First("remove")]
    /\ UNCHANGED <<rbVars, fnVars, openVars, dataVars, tloc, bound, log>>

\* ------------------------------------------------------------------ CachedBackend::read

\* File arm: File::open(path_of(destination(name)))?, fd.metadata()?, the length
\* added to bytes_downloaded.
ReadFile(t) ==
    /\ tpc[t] = "r_file"
    /\ LET k == destination(top[t].name) IN
       \E out \in {"ok", "err"} :
          CASE k \notin DOMAIN store ->
                 /\ out = "ok"
                 /\ Finish(t, "notfound", NoData, FALSE, bytes_downloaded, bytes_uploaded)
                 /\ UNCHANGED bytes_downloaded
            [] k \in DOMAIN store /\ out = "ok" ->
                 /\ bytes_downloaded' = bytes_downloaded + Len(store[k])
                 /\ Finish(t, "ok", store[k], FALSE, bytes_downloaded + Len(store[k]), bytes_uploaded)
            [] OTHER ->
                 /\ Fail(t, bytes_downloaded, bytes_uploaded)
                 /\ UNCHANGED bytes_downloaded
    /\ UNCHANGED <<rbVars, fnVars, openVars, store, cache, bytes_uploaded, top, tloc, nops, bound>>

\* Memory arm: backend.read_cursor(&destination(name))?
ReadMem(t) ==
    /\ tpc[t] = "r_mem"
    /\ LET k == destination(top[t].name) IN
       \E out \in {"ok", "err"} :
          CASE k \notin DOMAIN store ->
                 /\ out = "ok"
                 /\ Finish(t, "notfound", NoData, FALSE, bytes_downloaded, bytes_uploaded)
            [] k \in DOMAIN store /\ out = "ok" ->
                 Finish(t, "ok", store[k], FALSE, bytes_downloaded, bytes_uploaded)
            [] OTHER ->
                 Fail(t, bytes_downloaded, bytes_uploaded)
    /\ UNCHANGED <<rbVars, fnVars, openVars, dataVars, top, tloc, nops, bound>>

\* Cached arm: `tr` is None under AlwaysRead and cache.try_read(name)? otherwise;
\* a hit returns the cached handle.
ReadTry(t) ==
    /\ tpc[t] = "r_try"
    /\ LET n == top[t].name IN
       \E out \in {"ok", "err"} :
          CASE ~CacheFirst ->
                 /\ out = "ok"
                 /\ Step(t, ReadSeq, NoData, bytes_downloaded, bytes_uploaded)
                 /\ UNCHANGED cache
            [] CacheFirst /\ out = "err" ->
                 /\ Fail(t, bytes_downloaded, bytes_uploaded)
                 /\ UNCHANGED cache
            [] CacheFirst /\ out = "ok" /\ CacheHas(cache, n) ->
                 /\ cache' = cache_touch(cache, n)
                 /\ Finish(t, "ok", CacheData(cache, n), TRUE, bytes_downloaded, bytes_uploaded)
            [] OTHER ->
                 /\ Step(t, ReadSeq, NoData, bytes_downloaded, bytes_uploaded)
                 /\ UNCHANGED cache
    /\ UNCHANGED <<rbVars, fnVars, openVars, store, bytes_downloaded, bytes_uploaded, top, tloc,
                   nops, bound>>

\* Cached arm: backend.read(&destination(name))?, wrapped in the download counter.
ReadFetch(t) ==
    /\ tpc[t] = "r_fetch"
    /\ LET k == destination(top[t].name) IN
       \E out \in {"ok", "err"} :
          CASE k \notin DOMAIN store ->
                 /\ out = "ok"
                 /\ Finish(t, "notfound", NoData, FALSE, bytes_downloaded, bytes_uploaded)
                 /\ UNCHANGED tloc
            [] k \in DOMAIN store /\ out = "ok" ->
                 /\ tloc' = [tloc EXCEPT ![t] = store[k]]
                 /\ Step(t, ReadSeq, store[k], bytes_downloaded, bytes_uploaded)
            [] OTHER ->
                 /\ Fail(t, bytes_downloaded, bytes_uploaded)
                 /\ UNCHANGED tloc
    /\ UNCHANGED <<rbVars, fnVars, openVars, dataVars, top, nops, bound>>

\* Cached arm: cache.insert(name, counter)? drains the stream into a cache entry;
\* the counter adds every byte read to bytes_downloaded.
ReadInsert(t) ==
    /\ tpc[t] = "r_insert"
    /\ LET n == top[t].name
           d == tloc[t] IN
       \E got \in 0..Len(d), ok \in BOOLEAN :
          IF ok
          THEN /\ got = Len(d)
               /\ cache' = cache_insert(cache, n, d)
               /\ bytes_downloaded' = bytes_downloaded + Len(d)
               /\ Step(t, ReadSeq, d, bytes_downloaded + Len(d), bytes_uploaded)
          ELSE /\ bytes_downloaded' = bytes_downloaded + got
               /\ Fail(t, bytes_downloaded + got, bytes_uploaded)
               /\ UNCHANGED cache
    /\ UNCHANGED <<rbVars, fnVars, openVars, store, bytes_uploaded, top, tloc, nops, bound>>

\* Cached arm: cache.prune()? with the inserted entry's handle open, then
\* inserted.seek(Start(0))? and Ok(inserted).
ReadPrune(t) ==
    /\ tpc[t] = "r_prune"
    /\ \E out \in {"ok", "prune_err", "seek_err"} :
          /\ cache' = IF out = "prune_err" THEN cache
                      ELSE cache_prune(cache, cache_size, {top[t].name})
          /\ IF out = "ok"
             THEN Step(t, ReadSeq, tloc[t], bytes_downloaded, bytes_uploaded)
             ELSE Fail(t, bytes_downloaded, bytes_uploaded)
    /\ UNCHANGED <<rbVars, fnVars, openVars, store, bytes_downloaded, bytes_uploaded, top, tloc,
                   nops, bound>>

\* ------------------------------------------------------------------ CachedBackend::write

\* File arm: move_opened(name, fh, to)?, then the length added to bytes_uploaded.
WriteFile(t) ==
    /\ tpc[t] = "w_file"
    /\ LET k == destination(top[t].name)
           d == top[t].data IN
       \E ok \in BOOLEAN :
          IF ok
          THEN /\ store' = backend_write(store, k, d)
               /\ bytes_uploaded' = bytes_uploaded + Len(d)
               /\ Finish(t, "ok", NoData, FALSE, bytes_downloaded, bytes_uploaded + Len(d))
          ELSE /\ Fail(t, bytes_downloaded, bytes_uploaded)
               /\ UNCHANGED <<store, bytes_uploaded>>
    /\ UNCHANGED <<rbVars, fnVars, openVars, cache, bytes_downloaded, top, tloc, nops, bound>>

\* `backend.write(..)?`: an error of the backend write ends write().
BackendWriteFailed_Never(ok) == FALSE

BackendWriteFailed(ok) == ~ok

\* Cached arm: fh.seek(Start(0))?, backend.write(len, &mut counter, &destination(name))?;
\* the counter adds every byte the backend reads to bytes_uploaded.
WriteBackend(t) ==
    /\ tpc[t] = "w_backend"
    /\ LET k == destination(top[t].name)
           d == top[t].data IN
       \E sent \in 0..Len(d), ok \in BOOLEAN :
          IF ok
          THEN /\ sent = Len(d)
               /\ store' = backend_write(store, k, d)
               /\ bytes_uploaded' = bytes_uploaded + Len(d)
               /\ Step(t, WriteSeq, NoData, bytes_downloaded, bytes_uploaded + Len(d))
          ELSE /\ bytes_uploaded' = bytes_uploaded + sent
               /\ IF BackendWriteFailed(ok)
                  THEN Fail(t, bytes_downloaded, bytes_uploaded + sent)
                  ELSE Step(t, WriteSeq, NoData, bytes_downloaded, bytes_uploaded + sent)
               /\ UNCHANGED store
    /\ UNCHANGED <<rbVars, fnVars, openVars, cache, bytes_downloaded, top, tloc, nops, bound>>

\* Cached arm: cache.insert_file(name, counter.into_inner())?
WriteInsert(t) ==
    /\ tpc[t] = "w_insert"
    /\ \E ok \in BOOLEAN :
          IF ok
          THEN /\ cache' = cache_insert(cache, top[t].name, top[t].data)
               /\ Step(t, WriteSeq, NoData, bytes_downloaded, bytes_uploaded)
          ELSE /\ Fail(t, bytes_downloaded, bytes_uploaded)
               /\ UNCHANGED cache
    /\ UNCHANGED <<rbVars, fnVars, openVars, store, bytes_downloaded, bytes_uploaded, top, tloc,
                   nops, bound>>

\* Cached arm: cache.prune()?
WritePrune(t) ==
    /\ tpc[t] = "w_prune"
    /\ \E ok \in BOOLEAN :
          IF ok
          THEN /\ cache' = cache_prune(cache, cache_size, {})
               /\ Step(t, WriteSeq, NoData, bytes_downloaded, bytes_uploaded)
          ELSE /\ Fail(t, bytes_downloaded, bytes_uploaded)
               /\ UNCHANGED cache
    /\ UNCHANGED <<rbVars, fnVars, openVars, store, bytes_downloaded, bytes_uploaded, top, tloc,
                   nops, bound>>

\* Memory arm: fh.seek(Start(0))?, backend.write(..)?, the length added to
\* bytes_uploaded, std::fs::remove_file(name)?
WriteMem(t) ==
    /\ tpc[t] = "w_mem"
    /\ LET k == destination(top[t].name)
           d == top[t].data IN
       \E out \in {"ok", "err", "err_stored"} :
          /\ store' = IF out = "err" THEN store ELSE backend_write(store, k, d)
          /\ bytes_uploaded' = IF out = "err" THEN bytes_uploaded
                               ELSE bytes_uploaded + Len(d)
          /\ IF out = "ok"
             THEN Finish(t, "ok", NoData, FALSE, bytes_downloaded, bytes_uploaded + Len(d))
             ELSE Fail(t, bytes_downloaded,
                       IF out = "err" THEN bytes_uploaded ELSE bytes_uploaded + Len(d))
    /\ UNCHANGED <<rbVars, fnVars, openVars, cache, bytes_downloaded, top, tloc, nops, bound>>

\* ------------------------------------------------------------------ CachedBackend::remove

\* File and Memory arms: backend.remove(&destination(name))
RemoveFwd(t) ==
    /\ tpc[t] = "rm_fwd"
    /\ \E ok \in BOOLEAN :
          IF ok
          THEN /\ store' = backend_remove(store, destination(top[t].name))
               /\ Finish(t, "ok", NoData, FALSE, bytes_downloaded, bytes_uploaded)
          ELSE /\ Fail(t, bytes_downloaded, bytes_uploaded)
               /\ UNCHANGED store
    /\ UNCHANGED <<rbVars, fnVars, openVars, cache, bytes_downloaded, bytes_uploaded, top, tloc,
                   nops, bound>>

\* Cached arm: cache.evict(name)?
RemoveEvict(t) ==
    /\ tpc[t] = "rm_evict"
    /\ \E ok \in BOOLEAN :
          IF ok
          THEN /\ cache' = cache_evict(cache, top[t].name)
               /\ Step(t, RemoveSeq, NoData, bytes_downloaded, bytes_uploaded)
          ELSE /\ Fail(t, bytes_downloaded, bytes_uploaded)
               /\ UNCHANGED cache
    /\ UNCHANGED <<rbVars, fnVars, openVars, store, bytes_downloaded, bytes_uploaded, top, tloc,
                   nops, bound>>

\* Cached arm: backend.remove(&destination(name))?
RemoveBackend(t) ==
    /\ tpc[t] = "rm_backend"
    /\ \E ok \in BOOLEAN :
          IF ok
          THEN /\ store' = backend_remove(store, destination(top[t].name))
               /\ Step(t, RemoveSeq, NoData, bytes_downloaded, bytes_uploaded)
          ELSE /\ Fail(t, bytes_downloaded, bytes_uploaded)
               /\ UNCHANGED store
    /\ UNCHANGED <<rbVars, fnVars, openVars, cache, bytes_downloaded, bytes_uploaded, top, tloc,
                   nops, bound>>

\* read(), write() and remove(), each from its start to its return, on thread t.
ReadOp(t) ==
    \/ \E n \in Names : CallRead(t, n)
    \/ ReadFile(t)
    \/ ReadMem(t)
    \/ ReadTry(t)
    \/ ReadFetch(t)
    \/ ReadInsert(t)
    \/ ReadPrune(t)

WriteOp(t) ==
    \/ \E n \in Names, d \in Contents : CallWrite(t, n, d)
    \/ WriteFile(t)
    \/ WriteBackend(t)
    \/ WriteInsert(t)
    \/ WritePrune(t)
    \/ WriteMem(t)

RemoveOp(t) ==
    \/ \E n \in Names : CallRemove(t, n)
    \/ RemoveFwd(t)
    \/ RemoveEvict(t)
    \/ RemoveBackend(t)

\* ------------------------------------------------------------------ idle halves

\* The rebuild is not running: its variables rest.
RbIdle ==
    /\ packs = {}
    /\ indexes = {}
    /\ dry_run = FALSE
    /\ packs0 = {}
    /\ indexes0 = {}
    /\ pc = "done"
    /\ err = ""
    /\ superseded = {}
    /\ upload_ret = "none"
    /\ join_ret = "none"
    /\ toRemove = {}
    /\ removeCalls = 0
    /\ uploaded = {}
    /\ scanTodo = {}
    /\ scanBusy = {}
    /\ scanFailed = ""
    /\ pack_q = <<>>
    /\ tx_open = FALSE
    /\ upload_msg = {}
    /\ ipc = "unspawned"
    /\ index_packs = {}
    /\ wpc = "done"

\* No CachedBackend caller is modelled: its variables rest.
CbIdle ==
    /\ mode = "File"
    /\ behavior = "Normal"
    /\ cache_size = 0
    /\ store = <<>>
    /\ cache = <<>>
    /\ bytes_downloaded = 0
    /\ bytes_uploaded = 0
    /\ tpc = [t \in Threads |-> "idle"]
    /\ top = [t \in Threads |-> [op |-> "none", name |-> CHOOSE n \in Names : TRUE,
                                 data |-> NoData]]
    /\ tloc = [t \in Threads |-> NoData]
    /\ nops = 0
    /\ bound = [n \in Names |-> NoData]
    /\ log = <<>>

\* ------------------------------------------------------------------ free functions of backend.rs

\* Longest name, in tokens.
MaxNameLen == 3

Tokens == {"aaaa", ".", "pack", "index", "snapshot", "tmp"}
Strings(n) == UNION {[1..k -> Tokens] : k \in 0..n}

\* The outcome of a call: a value returned, an error returned, or a panic.
Returned(v) == [out |-> "ok", val |-> v]
Failed(e) == [out |-> "err", val |-> e]
Panicked == [out |-> "panic", val |-> <<>>]

DestinationCalls == [fn : {"destination"}, src : Strings(MaxNameLen)]

\* destination(src) returns the key, or panics on an unexpected extension.
CallDestination ==
    /\ fcall.fn = "destination"
    /\ fret = <<>>
    /\ fret' = IF unexpected_extension(fcall.src)
               THEN <<Panicked>>
               ELSE <<Returned(destination(fcall.src))>>
    /\ UNCHANGED <<rbVars, cbVars, fcall>>

\* Longest listing, in entries.
MaxListing == 3

\* Listings as list() returns them: (key, length) pairs.
ListedKeys == {<<"packs", "/">> \o pack_name("aaaa"), <<"packs", "/">> \o pack_name("bbbb"),
               pack_name("aaaa")}
ListedSizes == {0, 1}
Listings == UNION {[1..k -> ListedKeys \X ListedSizes] : k \in 0..MaxListing}
ProbeCalls == [fn : {"probe_pack"}, packs : Listings, id : {"aaaa", "bbbb"}]

\* probe_pack(listing, id): the entries whose key is packs/<id>.pack are counted;
\* none is an error, one is Ok(()), several panic.
probe_pack_AnyMatch(listing, id) ==
    LET pack_path == <<"packs", "/", id, ".", "pack">>
        Matches(e) == e[1] = pack_path
    IN IF Len(SelectSeq(listing, Matches)) = 0
       THEN Failed("Couldn't find pack")
       ELSE Returned(<<>>)

probe_pack(listing, id) ==
    LET pack_path == <<"packs", "/", id, ".", "pack">>
        Matches(e) == e[1] = pack_path
        found_packs == SelectSeq(listing, Matches)
    IN CASE Len(found_packs) = 0 -> Failed("Couldn't find pack")
         [] Len(found_packs) = 1 -> Returned(<<>>)
         [] OTHER -> Panicked

CallProbePack ==
    /\ fcall.fn = "probe_pack"
    /\ fret = <<>>
    /\ fret' = <<probe_pack(fcall.packs, fcall.id)>>
    /\ UNCHANGED <<rbVars, cbVars, fcall>>

\* The prefixes list_packs, list_indexes and list_snapshots query.
ListPrefix(kind) ==
    CASE kind = "pack" -> <<"packs", "/">>
      [] kind = "index" -> <<"indexes", "/">>
      [] kind = "snapshot" -> <<"snapshots", "/">>

\* ------------------------------------------------------------------ read_config and open

\* Most permits of the connection throttle.
MaxConnections == 2

\* enum Kind, as one record shape: force_cache is Filesystem's field,
\* concurrent_connections is Backblaze's.
ConfigKinds ==
    [type : {"Filesystem"}, force_cache : BOOLEAN, concurrent_connections : {0}]
    \cup [type : {"Backblaze"}, force_cache : {FALSE},
          concurrent_connections : 1..MaxConnections]

\* struct ConfigFile: what the TOML deserializes to.
ConfigFiles ==
    [pack_size : {"default", "set"}, kind : ConfigKinds,
     filter : {None, Some("f")}, unfilter : {None, Some("u")}]

\* A path given to read_config: whether it can be read, whether it parses, and
\* what it parses to.
ConfigPaths == [readable : BOOLEAN, parses : BOOLEAN, cf : ConfigFiles]

\* read_config(p)
read_config_Lenient(p) ==
    IF ~p.readable THEN Failed("Couldn't read config")
    ELSE IF ~p.parses THEN Failed("Couldn't parse config")
    ELSE Returned([pack_size |-> p.cf.pack_size, kind |-> p.cf.kind,
                   filter |-> IF p.cf.filter # None /\ p.cf.unfilter # None
                              THEN Some(<<p.cf.filter[1], p.cf.unfilter[1]>>)
                              ELSE None])

read_config(p) ==
    IF ~p.readable THEN Failed("Couldn't read config")
    ELSE IF ~p.parses THEN Failed("Couldn't parse config")
    ELSE CASE p.cf.filter # None /\ p.cf.unfilter # None ->
                Returned([pack_size |-> p.cf.pack_size, kind |-> p.cf.kind,
                          filter |-> Some(<<p.cf.filter[1], p.cf.unfilter[1]>>)])
           [] p.cf.filter = None /\ p.cf.unfilter = None ->
                Returned([pack_size |-> p.cf.pack_size, kind |-> p.cf.kind,
                          filter |-> None])
           [] OTHER -> Failed("config should set filter and unfilter or neither")

ReadConfigCalls == [fn : {"read_config"}, p : ConfigPaths]

CallReadConfig ==
    /\ fcall.fn = "read_config"
    /\ fret = <<>>
    /\ fret' = <<read_config(fcall.p)>>
    /\ UNCHANGED <<rbVars, cbVars, fcall>>

\* open(): `Kind::Filesystem { force_cache: false } if c.filter.is_none()`
is_direct_AnyFilter(c) == c.kind.type = "Filesystem" /\ ~c.kind.force_cache

is_direct(c) == c.kind.type = "Filesystem" /\ ~c.kind.force_cache /\ c.filter = None

\* open(): the backend of the Cached arm, outermost wrapper first.
wrapped_backend(c) ==
    (IF c.filter # None THEN <<"filter">> ELSE <<>>)
    \o (IF c.kind.type = "Backblaze" THEN <<"semaphored", "backblaze">> ELSE <<"fs">>)

\* What open() is given: the repository path's metadata, the configuration at
\* it, whether each constructor succeeds, and the cache parameters.
OpenCalls ==
    [fn : {"open"}, stat : {"dir", "file", "other", "missing"}, p : ConfigPaths,
     backend_opens : BOOLEAN, cache_sets_up : BOOLEAN,
     cache_size : {MaxCacheSize}, behavior : Behaviors]

\* open(repository, cache_size, behavior)
open(a) ==
    IF a.stat = "missing" THEN Failed("Couldn't stat")
    ELSE IF a.stat = "other" THEN Failed("is not a file or directory")
    ELSE IF read_config(a.p).out # "ok" THEN read_config(a.p)
    ELSE LET c == read_config(a.p).val IN
         IF ~a.backend_opens THEN Failed("backend open")
         ELSE IF is_direct(c)
         THEN Returned([config |-> c, mode |-> "File", backend |-> <<"fs">>,
                        permits |-> 0, behavior |-> "none", cache_size |-> 0])
         ELSE IF ~a.cache_sets_up THEN Failed("cache::setup")
         ELSE Returned([config |-> c, mode |-> "Cached", backend |-> wrapped_backend(c),
                        permits |-> c.kind.concurrent_connections,
                        behavior |-> a.behavior, cache_size |-> a.cache_size])

CallOpen ==
    /\ fcall.fn = "open"
    /\ fret = <<>>
    /\ fret' = <<open(fcall)>>
    /\ UNCHANGED <<rbVars, cbVars, fcall>>

\* ------------------------------------------------------------------ diff.rs

\* Most callbacks a call may run before one of them fails.
MaxFailAt == 2

\* Path components, in the order of a BTreeSet of them.
NameOrder_Unsorted == <<"foo.txt", "dir", "baz.txt", "bar.txt">>

NameOrder == <<"bar.txt", "baz.txt", "dir", "foo.txt">>

\* tree::Node: its kind (of its contents), the blob or subtree its contents refer
\* to, its metadata.
Node(kind, contents, metadata) == [kind |-> kind, contents |-> contents, metadata |-> metadata]

\* Trees one level down: the empty tree, single-entry trees and a two-entry tree,
\* by their id.
LeafNodes ==
    {Node("File", "X", "m1"), Node("File", "Y", "m1"), Node("File", "X", "m2"),
     Node("Symlink", "X", "m1")}
SubForest ==
    [id \in {"S0", "S1", "S2", "S3", "S4", "S5"} |->
        CASE id = "S0" -> <<>>
          [] id = "S1" -> ("bar.txt" :> Node("File", "X", "m1"))
          [] id = "S2" -> ("bar.txt" :> Node("File", "Y", "m1"))
          [] id = "S3" -> ("bar.txt" :> Node("File", "X", "m2"))
          [] id = "S4" -> ("bar.txt" :> Node("Symlink", "X", "m1"))
          [] id = "S5" -> ("bar.txt" :> Node("File", "Y", "m1"))
                          @@ ("baz.txt" :> Node("File", "Z", "m1"))]

\* Root trees: `dir` is any node, `foo.txt` a file or symlink, either may be absent.
DirNodes == LeafNodes \cup {Node("Directory", id, m) : id \in DOMAIN SubForest, m \in {"m1", "m2"}}
RootTrees ==
    {d @@ f : d \in {<<>>} \cup {("dir" :> n) : n \in DirNodes},
              f \in {<<>>} \cup {("foo.txt" :> n) : n \in LeafNodes}}

\* The forest of a root tree stored under `id`: the root, and the subtrees
\* unless they are missing from it.
Forest(id, root, missing) == IF missing THEN (id :> root) ELSE (id :> root) @@ SubForest

\* Callbacks: each call is recorded; the failAt-th call returns an error.
Event(ev, path, old, new, forest) ==
    [ev |-> ev, path |-> path, old |-> old, new |-> new, forest |-> forest]

Emit(st, e) ==
    IF st.out # "ok" THEN st
    ELSE [st EXCEPT !.events = Append(@, e),
                    !.out = IF Len(st.events) + 1 = st.failAt THEN "err" ELSE "ok"]

\* type_changed reporting the addition before the removal.
type_changed_AddedFirst(st, node_path, old_node, old_forest, new_node, new_forest) ==
    Emit(Emit(st, Event("node_added", node_path, None, Some(new_node), Some(new_forest))),
         Event("node_removed", node_path, Some(old_node), None, Some(old_forest)))

\* Callbacks::type_changed, the default: node_removed(..)?, node_added(..)?
type_changed(st, node_path, old_node, old_forest, new_node, new_forest) ==
    Emit(Emit(st, Event("node_removed", node_path, Some(old_node), None, Some(old_forest))),
         Event("node_added", node_path, None, Some(new_node), Some(new_forest)))

\* compare_nodes, Directory arm: `node1.contents != node2.contents`
subtree_changed_Always(node1, node2) == TRUE

subtree_changed(node1, node2) == node1.contents # node2.contents

\* compare_nodes, Directory arm: the two subtrees compare_trees is given.
subtrees_SameSide(node1, node2) == <<node1.contents, node1.contents>>

subtrees(node1, node2) == <<node1.contents, node2.contents>>

RECURSIVE compare_trees(_, _, _, _, _, _)
RECURSIVE compare_paths(_, _, _, _, _, _, _)
RECURSIVE compare_nodes(_, _, _, _, _, _)

\* compare_nodes with the Directory arm reporting the metadata before it recurses.
compare_nodes_MetadataFirst(node1, forest1, node2, forest2, path, st) ==
    CASE node1.kind = node2.kind /\ node1.kind \in {"File", "Symlink"} ->
           IF node1.contents # node2.contents
           THEN Emit(st, Event("contents_changed", path, Some(node1), Some(node2), None))
           ELSE IF node1.metadata # node2.metadata
           THEN Emit(st, Event("metadata_changed", path, Some(node1), Some(node2), None))
           ELSE Emit(st, Event("nothing_changed", path, None, Some(node2), None))
      [] node1.kind = "Directory" /\ node2.kind = "Directory" ->
           LET compared ==
                   IF node1.metadata # node2.metadata
                   THEN Emit(st, Event("metadata_changed", path, Some(node1), Some(node2), None))
                   ELSE st
               recursed ==
                   IF subtree_changed(node1, node2)
                   THEN compare_trees(subtrees(node1, node2)[1], forest1,
                                      subtrees(node1, node2)[2], forest2, path, compared)
                   ELSE compared
               changed == subtree_changed(node1, node2) \/ node1.metadata # node2.metadata
           IN IF changed THEN recursed
              ELSE Emit(recursed, Event("nothing_changed", path, None, Some(node1), None))
      [] OTHER -> type_changed(st, path, node1, forest1, node2, forest2)

\* compare_nodes((node1, forest1), (node2, forest2), path, callbacks)
compare_nodes(node1, forest1, node2, forest2, path, st) ==
    CASE node1.kind = node2.kind /\ node1.kind \in {"File", "Symlink"} ->
           IF node1.contents # node2.contents
           THEN Emit(st, Event("contents_changed", path, Some(node1), Some(node2), None))
           ELSE IF node1.metadata # node2.metadata
           THEN Emit(st, Event("metadata_changed", path, Some(node1), Some(node2), None))
           ELSE Emit(st, Event("nothing_changed", path, None, Some(node2), None))
      [] node1.kind = "Directory" /\ node2.kind = "Directory" ->
           LET recursed ==
                   IF subtree_changed(node1, node2)
                   THEN compare_trees(subtrees(node1, node2)[1], forest1,
                                      subtrees(node1, node2)[2], forest2, path, st)
                   ELSE st
               compared ==
                   IF node1.metadata # node2.metadata
                   THEN Emit(recursed,
                             Event("metadata_changed", path, Some(node1), Some(node2), None))
                   ELSE recursed
               changed == subtree_changed(node1, node2) \/ node1.metadata # node2.metadata
           IN IF changed THEN compared
              ELSE Emit(compared, Event("nothing_changed", path, None, Some(node1), None))
      [] OTHER -> type_changed(st, path, node1, forest1, node2, forest2)

\* compare_trees: the loop over all_paths; an error ends it.
compare_paths(paths, tree1, forest1, tree2, forest2, tree_path, st) ==
    IF paths = <<>> \/ st.out # "ok" THEN st
    ELSE LET path == Head(paths)
             node_path == Append(tree_path, path)
             next ==
                 CASE path \notin DOMAIN tree1 ->
                        Emit(st, Event("node_added", node_path, None, Some(tree2[path]),
                                       Some(forest2)))
                   [] path \notin DOMAIN tree2 ->
                        Emit(st, Event("node_removed", node_path, Some(tree1[path]), None,
                                       Some(forest1)))
                   [] OTHER ->
                        compare_nodes(tree1[path], forest1, tree2[path], forest2, node_path, st)
         IN compare_paths(Tail(paths), tree1, forest1, tree2, forest2, tree_path, next)

\* compare_trees((id1, forest1), (id2, forest2), tree_path, callbacks): a missing
\* tree panics.
compare_trees(id1, forest1, id2, forest2, tree_path, st) ==
    IF st.out # "ok" THEN st
    ELSE IF id1 \notin DOMAIN forest1 \/ id2 \notin DOMAIN forest2
    THEN [st EXCEPT !.out = "panic"]
    ELSE LET tree1 == forest1[id1]
             tree2 == forest2[id2]
             InEither(p) == p \in DOMAIN tree1 \cup DOMAIN tree2
             all_paths == SelectSeq(NameOrder, InEither)
         IN compare_paths(all_paths, tree1, forest1, tree2, forest2, tree_path, st)

\* No callback has run; the failAt-th one will fail (0: none).
Callbacks(failAt) == [events |-> <<>>, out |-> "ok", failAt |-> failAt]

\* A diff of root tree a against root tree b, or of a against itself.
CompareCalls ==
    [fn : {"compare_trees", "compare_same"}, a : RootTrees, b : RootTrees,
     missing : BOOLEAN, failAt : 0..MaxFailAt]

\* compare_trees((A, forest of a), (B, forest of b), "", callbacks)
CallCompareTrees ==
    /\ fcall.fn = "compare_trees"
    /\ fret = <<>>
    /\ fret' = <<compare_trees("A", Forest("A", fcall.a, FALSE),
                               "B", Forest("B", fcall.b, fcall.missing),
                               <<>>, Callbacks(fcall.failAt))>>
    /\ UNCHANGED <<rbVars, cbVars, fcall>>

\* compare_trees((A, forest), (A, forest), "", callbacks): a tree against itself.
CallCompareSame ==
    /\ fcall.fn = "compare_same"
    /\ fret = <<>>
    /\ fret' = <<compare_trees("A", Forest("A", fcall.a, fcall.missing),
                               "A", Forest("A", fcall.a, fcall.missing),
                               <<>>, Callbacks(fcall.failAt))>>
    /\ UNCHANGED <<rbVars, cbVars, fcall>>

\* ------------------------------------------------------------------ specification

RbNext ==
    \/ ListIndexes
    \/ ListPacks
    \/ \E k \in scanTodo : ScanLoad(k)
    \/ \E p \in scanBusy : ScanSend(p)
    \/ ScanReturn
    \/ UploadFile
    \/ UploadReturn
    \/ Join
    \/ \E i \in toRemove : Retire(i)
    \/ RunOk
    \/ IndexerRecv
    \/ IndexerFinalize
    \/ IndexerSend
    \/ IndexerSendFail
    \/ IndexerFail
    \/ \E p \in WriterPacks : WriterWritePack(p)
    \/ WriterWriteIndex

\* The rebuild alone.
\* No free function is being called.
FnIdle ==
    /\ fcall = [fn |-> "none"]
    /\ fret = <<>>

RebuildInit == RbInit /\ CbIdle /\ FnIdle

SpecRebuild == RebuildInit /\ [][RbNext]_vars

\* The threads of the rebuild: run() itself with the uploader it calls, the
\* tasks of the parallel iterator, and the indexer.
MainThread ==
    \/ ListIndexes
    \/ ListPacks
    \/ ScanReturn
    \/ UploadFile
    \/ UploadReturn
    \/ Join
    \/ \E i \in toRemove : Retire(i)
    \/ RunOk

Scanners ==
    \/ \E k \in scanTodo : ScanLoad(k)
    \/ \E p \in scanBusy : ScanSend(p)

Indexer ==
    \/ IndexerRecv
    \/ IndexerFinalize
    \/ IndexerSend
    \/ IndexerSendFail

\* The rebuild on OS threads: a thread that can take a step eventually does.
SpecRebuildFair ==
    /\ SpecRebuild
    /\ WF_vars(MainThread)
    /\ WF_vars(Scanners)
    /\ WF_vars(Indexer)

\* The CachedBackend alone.
CachedInit == CbInit /\ RbIdle /\ FnIdle

\* One caller of the CachedBackend: operations one after another.
SeqNext ==
    \/ ReadOp(1)
    \/ WriteOp(1)
    \/ RemoveOp(1)

SpecCachedSeq == CachedInit /\ [][SeqNext]_vars

\* Two callers: thread 1 writes while thread 2 reads.
WRNext ==
    \/ WriteOp(1)
    \/ ReadOp(2)

SpecCachedWR == CachedInit /\ [][WRNext]_vars

\* A repository that already holds objects, opened with an empty cache: every
\* name is absent or stored under its destination with its bytes.
StoredInit ==
    /\ RbIdle
    /\ FnIdle
    /\ mode \in Modes
    /\ behavior \in IF mode = "Cached" THEN Behaviors ELSE {"Normal"}
    /\ cache_size \in IF mode = "Cached" THEN 1..MaxCacheSize ELSE {MaxCacheSize}
    /\ bound \in [Names -> Contents \cup {NoData}]
    /\ store = [k \in {destination(n) : n \in {m \in Names : bound[m] # NoData}} |->
                  bound[CHOOSE n \in Names : destination(n) = k]]
    /\ cache = <<>>
    /\ bytes_downloaded = 0
    /\ bytes_uploaded = 0
    /\ tpc = [t \in Threads |-> "idle"]
    /\ top = [t \in Threads |-> [op |-> "none", name |-> CHOOSE n \in Names : TRUE,
                                 data |-> NoData]]
    /\ tloc = [t \in Threads |-> NoData]
    /\ nops = 0
    /\ log = <<>>

\* Two callers: thread 1 removes while thread 2 reads.
RRNext ==
    \/ RemoveOp(1)
    \/ ReadOp(2)

SpecCachedRR == StoredInit /\ [][RRNext]_vars

\* The free functions of backend.rs, each called once on an input.
LayoutInit ==
    /\ RbIdle
    /\ CbIdle
    /\ fcall \in DestinationCalls \cup ProbeCalls
    /\ fret = <<>>

LayoutNext ==
    \/ CallDestination
    \/ CallProbePack

SpecLayout == LayoutInit /\ [][LayoutNext]_vars

\* read_config and open, each called once on an input.
OpenInit ==
    /\ RbIdle
    /\ CbIdle
    /\ fcall \in ReadConfigCalls \cup OpenCalls
    /\ fret = <<>>

OpenNext ==
    \/ CallReadConfig
    \/ CallOpen

SpecOpen == OpenInit /\ [][OpenNext]_vars

\* compare_trees, called once on a pair of trees.
DiffInit ==
    /\ RbIdle
    /\ CbIdle
    /\ fcall \in CompareCalls
    /\ fcall.fn = "compare_same" => fcall.b = fcall.a
    /\ fret = <<>>

DiffNext ==
    \/ CallCompareTrees
    \/ CallCompareSame

SpecDiff == DiffInit /\ [][DiffNext]_vars

\* ------------------------------------------------------------------ claims C1..C5

\* Every pack an index of the repository references is a pack object of the repository.
RepositoryValid == \A i \in indexes : i.packs \subseteq packs

\* Some index of the set I covers every pack the repository held when the run started.
Covering(I) == \E i \in I : packs0 \subseteq i.packs

\* The stages of run() that come before the retire loop.
BeforeRetire == {"list_indexes", "list_packs", "load_manifest", "send", "upload",
                 "indexer", "no_index"}

\* C1: in a live rebuild of a repository one of whose indexes covers every pack, every
\* state has an index in the backend covering every pack of that repository, and
\* once an old index has been removed (or its removal attempted) the new index has
\* been uploaded and is present.
C1_CoveringIndexAlways ==
    (~dry_run /\ Covering(indexes0)) =>
        /\ Covering(indexes)
        /\ removeCalls > 0 => (NewIndex \in uploaded /\ NewIndex \in indexes)

\* A live run that ended Ok after replacing every old index of a two-pack repository.
C1_Witness ==
    /\ ~dry_run
    /\ pc = "done" /\ err = ""
    /\ packs0 = InitPackIds
    /\ Covering(indexes0)
    /\ indexes0 \cap indexes = {}
    /\ removeCalls > 0

\* C2: a remove_index call is made only after upload::upload returned Ok and the
\* indexer was joined with the result true.
C2_RetireAfterUpload ==
    (removeCalls > 0 \/ pc = "retire") => (upload_ret = "ok" /\ join_ret = "true")

\* The retire loop is under way: one old index removed, another still to go.
C2_Witness ==
    /\ pc = "retire"
    /\ removeCalls > 0
    /\ toRemove # {}

\* C3: a dry run writes no index, calls no remove_index, and every index (and pack)
\* of the start is still present; when it ends Ok the indexer did build an index.
C3_DryRunUnchanged ==
    dry_run =>
        /\ uploaded = {}
        /\ removeCalls = 0
        /\ indexes0 \subseteq indexes
        /\ packs0 \subseteq packs
        /\ (pc = "done" /\ err = "") => ipc = "done_true"

\* A dry run over existing indexes ended Ok with the repository exactly as it was.
C3_Witness ==
    /\ dry_run
    /\ pc = "done" /\ err = ""
    /\ indexes0 # {}
    /\ indexes = indexes0
    /\ packs = packs0
    /\ index_packs = packs0

\* C4 as stated: an error before retirement leaves the prior state (the run has
\* written nothing and removed nothing); an error in retirement leaves the new index
\* present and the old indexes not yet removed in place.
C4_FailureLeavesPriorState ==
    /\ err \in BeforeRetire =>
          (uploaded = {} /\ removeCalls = 0 /\ indexes0 \subseteq indexes
           /\ RepositoryValid)
    /\ err = "remove" =>
          (NewIndex \in indexes /\ toRemove # {} /\ toRemove \subseteq indexes
           /\ RepositoryValid)

\* C4 amended: an error before retirement leaves a valid repository with no existing
\* index removed, to which the run has added nothing unless the error is the upload's
\* (the write can fail after the backend stored the new index); an error in
\* retirement leaves the new index present and the old indexes not yet removed in
\* place.
C4_FailureLeavesValidState ==
    /\ err \in BeforeRetire =>
          /\ removeCalls = 0
          /\ indexes0 \subseteq indexes
          /\ RepositoryValid
          /\ uploaded # {} => (err = "upload" /\ uploaded = {NewIndex})
    /\ err = "remove" =>
          (NewIndex \in indexes /\ toRemove # {} /\ toRemove \subseteq indexes
           /\ RepositoryValid)

\* A remove_index failed after one old index was already removed.
C4_Witness ==
    /\ err = "remove"
    /\ removeCalls > 1
    /\ indexes0 \ indexes # {}
    /\ toRemove # {}

IsRead(j) == log[j].op = "read"
Touches(k, op, n) == log[k].op = op /\ log[k].name = n

\* The successful writes of the read's name that came before read j with no
\* remove of that name called in between.
WritesBefore(j) ==
    {i \in 1..(j - 1) :
        /\ Touches(i, "write", log[j].name)
        /\ log[i].status = "ok"
        /\ \A k \in (i + 1)..(j - 1) : ~Touches(k, "remove", log[j].name)}

\* Read j follows a successful remove of its name with no write of that name
\* called in between.
RemovedBefore(j) ==
    \E i \in 1..(j - 1) :
        /\ Touches(i, "remove", log[j].name)
        /\ log[i].status = "ok"
        /\ \A k \in (i + 1)..(j - 1) : ~Touches(k, "write", log[j].name)

\* bytes_downloaded when operation j started (one caller).
DlBefore(j) == IF j = 1 THEN 0 ELSE log[j - 1].dl

\* Every cache entry has the same bytes at its destination in the backend.
CacheBacked ==
    \A e \in DOMAIN cache :
        /\ destination(cache[e].name) \in DOMAIN store
        /\ store[destination(cache[e].name)] = cache[e].data

\* The bytes of all objects written so far.
RECURSIVE SumLen(_)
SumLen(S) ==
    IF S = {} THEN 0
    ELSE LET n == CHOOSE x \in S : TRUE IN Len(bound[n]) + SumLen(S \ {n})
TotalWritten == SumLen(Names)

\* C6: in every mode, a read(name) that follows a successful write(name, file)
\* with no remove(name) in between never reports NotFound, and when it returns
\* content, the content is byte for byte what was written.
C6_WriteReadRoundTrip ==
    \A j \in DOMAIN log :
        (IsRead(j) /\ WritesBefore(j) # {}) =>
            /\ log[j].status \in {"ok", "err"}
            /\ log[j].status = "ok" =>
                  \A i \in WritesBefore(j) : log[j].data = log[i].arg

C6_Witness ==
    /\ mode = "Cached"
    /\ cache_size < MaxLen
    /\ Len(log) = 3
    /\ Touches(1, "write", log[3].name) /\ log[1].status = "ok"
    /\ Len(log[1].arg) = MaxLen
    /\ Touches(2, "write", log[3].name) /\ log[2].status = "err"
    /\ IsRead(3) /\ log[3].status = "ok" /\ ~log[3].hit
    /\ log[3].data = log[1].arg

\* C7: in every mode, a read(name) that follows a successful remove(name) with
\* no write(name) in between never returns content: it reports NotFound (or an
\* I/O error), also when the object was in the cache before the remove.
C7_RemoveThenReadNotFound ==
    \A j \in DOMAIN log :
        (IsRead(j) /\ RemovedBefore(j)) =>
            /\ log[j].status \in {"notfound", "err"}
            /\ ~log[j].hit

C7_Witness ==
    /\ mode = "Cached" /\ behavior = "Normal"
    /\ Len(log) = 3
    /\ Touches(1, "write", log[3].name) /\ log[1].status = "ok"
    /\ Len(log[1].arg) <= cache_size
    /\ Touches(2, "remove", log[3].name) /\ log[2].status = "ok"
    /\ IsRead(3) /\ log[3].status = "notfound"
    /\ ~CacheHas(cache, log[3].name)

\* C8: in Cached mode, write reaches cache.insert_file only with the object at
\* destination(name) in the backend, a write whose backend.write failed adds no
\* cache entry, and with one caller every cache entry is backed by the backend
\* object of its name.
C8_CacheAfterBackend ==
    mode = "Cached" =>
        /\ CacheBacked
        /\ \A t \in Threads :
              tpc[t] = "w_insert" => destination(top[t].name) \in DOMAIN store

C8_Witness ==
    /\ mode = "Cached"
    /\ cache # <<>>
    /\ \E j \in DOMAIN log :
          /\ log[j].op = "write" /\ log[j].status = "err"
          /\ destination(log[j].name) \notin DOMAIN store
          /\ ~CacheHas(cache, log[j].name)
    /\ \E j \in DOMAIN log : log[j].op = "write" /\ log[j].status = "ok"

\* C9: with a writer and a reader running concurrently, a read returns NotFound
\* (or an I/O error) or the whole object written under the name, and a name is
\* in the cache only once its object is in the backend.
C9_RacingReadWholeOrNothing ==
    /\ \A j \in DOMAIN log :
          (IsRead(j) /\ log[j].status = "ok") =>
              (log[j].data = bound[log[j].name] /\ log[j].data # NoData)
    /\ mode = "Cached" => CacheBacked

C9_Witness ==
    /\ mode = "Cached"
    /\ tpc[1] = "w_insert"
    /\ Len(log) = 2
    /\ IsRead(1) /\ log[1].name = top[1].name /\ log[1].status = "notfound"
    /\ IsRead(2) /\ log[2].name = top[1].name /\ log[2].status = "ok"
    /\ log[2].data = top[1].data
    /\ ~log[2].hit

\* C10 as claimed: in Cached mode with behavior Normal, every successful
\* read(name) after a successful write(name, file) is a cache hit that leaves
\* bytes_downloaded unchanged.
C10_EveryReadHits ==
    (mode = "Cached" /\ behavior = "Normal") =>
        \A j \in DOMAIN log :
            (IsRead(j) /\ WritesBefore(j) # {} /\ log[j].status = "ok") =>
                (log[j].hit /\ log[j].dl = DlBefore(j))

\* C10, amended: in Cached mode with behavior Normal, while the objects written
\* fit the cache budget together, every successful read(name) after a
\* successful write(name, file) (no remove(name) in between) is a cache hit that
\* leaves bytes_downloaded unchanged; a write followed by two such reads ends
\* with bytes_downloaded = 0 and destination(name) in the backend.
C10_ReadHitsWithinBudget ==
    (mode = "Cached" /\ behavior = "Normal" /\ TotalWritten <= cache_size) =>
        /\ \A j \in DOMAIN log :
              (IsRead(j) /\ WritesBefore(j) # {} /\ log[j].status = "ok") =>
                  (log[j].hit /\ log[j].dl = DlBefore(j))
        /\ (/\ Len(log) = 3
            /\ log[1].op = "write" /\ log[1].status = "ok"
            /\ \A j \in {2, 3} : IsRead(j) /\ log[j].name = log[1].name
                                           /\ log[j].status = "ok") =>
              (bytes_downloaded = 0 /\ destination(log[1].name) \in DOMAIN store)

C10_Witness ==
    /\ mode = "Cached" /\ behavior = "Normal"
    /\ TotalWritten <= cache_size
    /\ Len(log) = 3
    /\ log[1].op = "write" /\ log[1].status = "ok"
    /\ \A j \in {2, 3} : IsRead(j) /\ log[j].name = log[1].name /\ log[j].hit
    /\ bytes_downloaded = 0
    /\ bytes_uploaded = Len(log[1].arg)
    /\ destination(log[1].name) \in DOMAIN store

\* The log is one successful write followed by two successful reads of its name.
WriteThenTwoReads ==
    /\ Len(log) = 3
    /\ log[1].op = "write" /\ log[1].status = "ok"
    /\ \A j \in {2, 3} : IsRead(j) /\ log[j].name = log[1].name /\ log[j].status = "ok"

\* C11: in Cached mode with behavior AlwaysRead, every successful read(name) is
\* served by the backend, cached or not, and adds the object's length to
\* bytes_downloaded; after a write followed by two reads bytes_downloaded is
\* twice the object's length.
C11_AlwaysReadFetches ==
    (mode = "Cached" /\ behavior = "AlwaysRead") =>
        /\ \A j \in DOMAIN log :
              (IsRead(j) /\ log[j].status = "ok") =>
                  /\ ~log[j].hit
                  /\ log[j].dl = DlBefore(j) + Len(log[j].data)
        /\ WriteThenTwoReads => log[3].dl = 2 * Len(log[1].arg)

C11_Witness ==
    /\ mode = "Cached" /\ behavior = "AlwaysRead"
    /\ WriteThenTwoReads
    /\ Len(log[1].arg) = MaxLen
    /\ log[2].dl = MaxLen
    /\ CacheHas(cache, log[1].name)
    /\ log[3].dl = 2 * MaxLen

\* bytes_uploaded when operation j started (one caller).
UlBefore(j) == IF j = 1 THEN 0 ELSE log[j - 1].ul

\* The bytes of the objects the first k operations wrote to the store.
RECURSIVE BytesWritten(_)
BytesWritten(k) ==
    IF k = 0 THEN 0
    ELSE BytesWritten(k - 1)
         + (IF log[k].op = "write" /\ log[k].status = "ok" THEN Len(log[k].arg) ELSE 0)

\* The bytes of the objects the first k operations read from the store (a cache
\* hit reads nothing from it).
RECURSIVE BytesRead(_)
BytesRead(k) ==
    IF k = 0 THEN 0
    ELSE BytesRead(k - 1)
         + (IF IsRead(k) /\ log[k].status = "ok" /\ ~log[k].hit
            THEN Len(log[k].data) ELSE 0)

\* No operation has failed and none is running.
AllSucceeded ==
    /\ \A t \in Threads : tpc[t] = "idle"
    /\ \A j \in DOMAIN log : log[j].status # "err"

\* C12: in every mode the byte counters never decrease, and after operations
\* that all succeeded bytes_uploaded is the sum of the lengths of the objects
\* written to the store and bytes_downloaded the sum of the lengths of the
\* objects read from it.
C12_CountersEqualTransfers ==
    /\ \A j \in DOMAIN log : log[j].dl >= DlBefore(j) /\ log[j].ul >= UlBefore(j)
    /\ AllSucceeded =>
          /\ bytes_uploaded = BytesWritten(Len(log))
          /\ bytes_downloaded = BytesRead(Len(log))

\* ------------------------------------------------------------------ claims on the free functions

Kinds == {"pack", "index", "snapshot"}
DestinationDone == fcall.fn = "destination" /\ fret # <<>>
HasKind(src) == \E k \in Kinds : extension(src) = Some(<<k>>)
KindOf(src) == extension(src)[1][1]

\* C13 as claimed: destination(name) is `<ext>s/<name>` when the extension is
\* pack, index or snapshot, and a panic otherwise.
C13_DestinationPlural ==
    DestinationDone =>
        IF HasKind(fcall.src)
        THEN fret[1] = Returned(<<KindOf(fcall.src) \o "s", "/">> \o fcall.src)
        ELSE fret[1] = Panicked

\* C13, amended: destination(name) is `packs/<name>`, `indexes/<name>` or
\* `snapshots/<name>` when the extension is pack, index or snapshot (the prefix
\* the kind's listing queries), and a panic otherwise.
C13_DestinationLayout ==
    DestinationDone =>
        IF HasKind(fcall.src)
        THEN fret[1] = Returned(ListPrefix(KindOf(fcall.src)) \o fcall.src)
        ELSE fret[1] = Panicked

C13_Witness ==
    /\ DestinationDone
    /\ fcall.src = <<"aaaa", ".", "index">>
    /\ fret[1] = Returned(<<"indexes", "/", "aaaa", ".", "index">>)

\* A flat name `<id>.<kind>`: no directory, one of the three kinds.
IsFlat(n) ==
    /\ Len(n) = 3
    /\ n[1] \notin {".", "/"}
    /\ n[2] = "."
    /\ n[3] \in Kinds

\* A backend key: a flat name behind the prefix of its kind.
IsPrefixed(k) ==
    /\ Len(k) = 5
    /\ IsFlat(SubSeq(k, 3, 5))
    /\ SubSeq(k, 1, 2) = ListPrefix(k[5])

\* C14: in every mode and across read, write and remove, the cache only holds
\* flat `<id>.<kind>` names and the backend only holds keys of the reshaped form
\* destination(name): no bare name in the backend, no prefixed key in the cache.
C14_KeySplit ==
    /\ \A i \in DOMAIN cache : IsFlat(cache[i].name) /\ ~IsPrefixed(cache[i].name)
    /\ \A k \in DOMAIN store : IsPrefixed(k) /\ ~IsFlat(k)
    /\ \A t \in Threads : top[t].op # "none" => IsFlat(top[t].name)

C14_Witness ==
    /\ mode = "Cached"
    /\ DOMAIN store = {<<"packs", "/", "aaaa", ".", "pack">>,
                       <<"indexes", "/", "bbbb", ".", "index">>}
    /\ CacheNames(cache) = {<<"aaaa", ".", "pack">>, <<"bbbb", ".", "index">>}
    /\ \E j \in DOMAIN log : IsRead(j) /\ log[j].status = "ok"

ProbeDone == fcall.fn = "probe_pack" /\ fret # <<>>

\* The entries of the listing whose key is packs/<id>.pack.
PackEntries == {i \in DOMAIN fcall.packs : fcall.packs[i][1] = <<"packs", "/">> \o pack_name(fcall.id)}

\* The listing with every length replaced by n.
Resized(n) == [i \in DOMAIN fcall.packs |-> <<fcall.packs[i][1], n>>]

\* C15: probe_pack(listing, id) returns Ok exactly when one entry of the listing
\* has the key packs/<id>.pack, returns an error when none has, and panics when
\* several have; the lengths in the listing do not matter.
C15_ProbePackOutcome ==
    ProbeDone =>
        /\ fret[1].out = "ok" <=> Cardinality(PackEntries) = 1
        /\ fret[1].out = "err" <=> Cardinality(PackEntries) = 0
        /\ fret[1].out = "panic" <=> Cardinality(PackEntries) > 1
        /\ \A n \in ListedSizes : probe_pack(Resized(n), fcall.id) = fret[1]

C15_Witness ==
    /\ ProbeDone
    /\ Cardinality(PackEntries) = 2
    /\ Len(fcall.packs) = 3
    /\ fcall.packs[1][2] # fcall.packs[3][2]
    /\ fret[1] = Panicked

\* ------------------------------------------------------------------ claims on read_config and open

OpenDone == fcall.fn = "open" /\ fret # <<>>
ReadConfigDone == fcall.fn = "read_config" /\ fret # <<>>
BothFilters == fcall.p.cf.filter # None /\ fcall.p.cf.unfilter # None
NoFilters == fcall.p.cf.filter = None /\ fcall.p.cf.unfilter = None

\* C16: when open succeeds, the mode is File exactly for a Filesystem kind with
\* force_cache = false and no filter, and Cached for every other configuration;
\* in Cached mode a Backblaze backend sits directly inside the throttle with
\* concurrent_connections permits, a Filesystem backend has no throttle, and a
\* configured filter is the outermost wrapper.
C16_OpenSelectsMode ==
    (OpenDone /\ fret[1].out = "ok") =>
        LET cf == fcall.p.cf
            r == fret[1].val
            direct == cf.kind.type = "Filesystem" /\ ~cf.kind.force_cache /\ NoFilters
        IN /\ r.mode = (IF direct THEN "File" ELSE "Cached")
           /\ (r.mode = "Cached" /\ cf.kind.type = "Backblaze") =>
                 /\ SubSeq(r.backend, Len(r.backend) - 1, Len(r.backend))
                       = <<"semaphored", "backblaze">>
                 /\ r.permits = cf.kind.concurrent_connections
           /\ (r.mode = "Cached" /\ cf.kind.type = "Filesystem") =>
                 /\ r.backend[Len(r.backend)] = "fs"
                 /\ \A i \in DOMAIN r.backend : r.backend[i] # "semaphored"
           /\ r.mode = "Cached" =>
                 /\ BothFilters <=> Head(r.backend) = "filter"
                 /\ \A i \in 2..Len(r.backend) : r.backend[i] # "filter"
                 /\ r.behavior = fcall.behavior
                 /\ r.cache_size = fcall.cache_size

C16_Witness ==
    /\ OpenDone
    /\ fcall.p.cf.kind.type = "Backblaze"
    /\ fcall.p.cf.kind.concurrent_connections = MaxConnections
    /\ fret[1].out = "ok"
    /\ fret[1].val.mode = "Cached"
    /\ fret[1].val.backend = <<"filter", "semaphored", "backblaze">>
    /\ fret[1].val.permits = MaxConnections

\* C17: read_config returns a Configuration only when filter and unfilter are
\* both present (filter = Some((filter, unfilter))) or both absent (filter =
\* None), and returns an error when exactly one is present; so every
\* Configuration it produces, also through open, is both-or-neither.
C17_FilterBothOrNeither ==
    /\ ReadConfigDone =>
          /\ fret[1].out = "ok" <=>
                (fcall.p.readable /\ fcall.p.parses /\ (BothFilters \/ NoFilters))
          /\ fret[1].out = "ok" =>
                fret[1].val.filter = (IF BothFilters THEN Some(<<"f", "u">>) ELSE None)
          /\ fret[1].out # "ok" => fret[1].out = "err"
    /\ (OpenDone /\ fret[1].out = "ok") =>
          /\ BothFilters \/ NoFilters
          /\ fret[1].val.config.filter = (IF BothFilters THEN Some(<<"f", "u">>) ELSE None)

C17_Witness ==
    /\ ReadConfigDone
    /\ fcall.p.readable /\ fcall.p.parses
    /\ fcall.p.cf.filter = Some("f") /\ fcall.p.cf.unfilter = None
    /\ fret[1].out = "err"

\* ------------------------------------------------------------------ claims on diff

CompareDone == fcall.fn = "compare_trees" /\ fret # <<>>

\* The callbacks run, as (event, path) pairs in order.
Emitted == [i \in DOMAIN fret[1].events |-> <<fret[1].events[i].ev, fret[1].events[i].path>>]

\* A = {foo.txt -> X, dir -> S1 {bar.txt -> Y}} against B = {foo.txt -> X' with
\* the same metadata, dir -> S1' {bar.txt -> Y, baz.txt -> Z} with other
\* metadata}, complete forests, no failing callback.
ScenarioA == ("dir" :> Node("Directory", "S2", "m1")) @@ ("foo.txt" :> Node("File", "X", "m1"))
ScenarioB == ("dir" :> Node("Directory", "S5", "m2")) @@ ("foo.txt" :> Node("File", "Y", "m1"))
ScenarioDone ==
    /\ CompareDone
    /\ fcall.a = ScenarioA /\ fcall.b = ScenarioB
    /\ ~fcall.missing /\ fcall.failAt = 0

\* C18 as claimed: the scenario emits contents_changed foo.txt, metadata_changed
\* dir, node_added dir/baz.txt, nothing_changed dir/bar.txt, in this order.
C18_ScenarioEventsAsListed ==
    ScenarioDone =>
        Emitted = << <<"contents_changed", <<"foo.txt">> >>,
                     <<"metadata_changed", <<"dir">> >>,
                     <<"node_added", <<"dir", "baz.txt">> >>,
                     <<"nothing_changed", <<"dir", "bar.txt">> >> >>

\* C18, amended: the scenario emits exactly those four events, in path order with
\* a directory's own event after the events below it: nothing_changed
\* dir/bar.txt, node_added dir/baz.txt, metadata_changed dir, contents_changed
\* foo.txt.
C18_ScenarioEventsInPathOrder ==
    ScenarioDone =>
        /\ fret[1].out = "ok"
        /\ Emitted = << <<"nothing_changed", <<"dir", "bar.txt">> >>,
                        <<"node_added", <<"dir", "baz.txt">> >>,
                        <<"metadata_changed", <<"dir">> >>,
                        <<"contents_changed", <<"foo.txt">> >> >>

C18_Witness ==
    /\ ScenarioDone
    /\ Len(fret[1].events) = 4
    /\ fret[1].events[2].new = Some(Node("File", "Z", "m1"))
    /\ fret[1].events[4].old = Some(Node("File", "X", "m1"))
    /\ fret[1].events[4].new = Some(Node("File", "Y", "m1"))

\* The events compare_trees reports for the opposite direction of the call being
\* made: tree b (in its forest) as the old side, tree a as the new side.
ReverseEvents ==
    compare_trees("B", Forest("B", fcall.b, FALSE),
                  "A", Forest("A", fcall.a, FALSE),
                  <<>>, Callbacks(0)).events

\* An event seen from the other direction: node_added and node_removed trade
\* places, and old and new nodes are exchanged in contents_changed and
\* metadata_changed; nothing_changed is left as it is.
Inverse(e) ==
    CASE e.ev = "node_added" -> Event("node_removed", e.path, e.new, None, e.forest)
      [] e.ev = "node_removed" -> Event("node_added", e.path, None, e.old, e.forest)
      [] e.ev \in {"contents_changed", "metadata_changed"} ->
           Event(e.ev, e.path, e.new, e.old, e.forest)
      [] OTHER -> e

InverseAll(events) == [i \in DOMAIN events |-> Inverse(events[i])]

\* A node_added directly followed by a node_removed of the same path is put
\* removal first, the order the default type_changed uses.
RECURSIVE RemovalFirst(_)
RemovalFirst(events) ==
    IF Len(events) < 2 THEN events
    ELSE IF /\ events[1].ev = "node_added"
            /\ events[2].ev = "node_removed"
            /\ events[1].path = events[2].path
    THEN <<events[2], events[1]>> \o RemovalFirst(Tail(Tail(events)))
    ELSE <<events[1]>> \o RemovalFirst(Tail(events))

\* A comparison of a against b with every tree present and no callback failing.
SymmetricCase ==
    /\ CompareDone
    /\ fcall.fn = "compare_trees"
    /\ ~fcall.missing
    /\ fcall.failAt = 0

\* C19 (as stated): the events of compare_trees(a, b) are, one by one and in the
\* same order, the inverses of the events of compare_trees(b, a).
C19_DiffSymmetricSequence ==
    SymmetricCase => fret[1].events = InverseAll(ReverseEvents)

\* C19 (amended): the events of compare_trees(a, b) are the inverses of the
\* events of compare_trees(b, a) in the same order, except that the two events
\* of a type change come removal first in both directions.
C19_DiffSymmetricUpToTypeChange ==
    SymmetricCase =>
        /\ fret[1].out = "ok"
        /\ fret[1].events = RemovalFirst(InverseAll(ReverseEvents))

\* A file became a symlink next to a directory whose contents changed: the type
\* change is reported as a removal followed by an addition.
C19_Witness ==
    /\ SymmetricCase
    /\ "dir" \in DOMAIN fcall.a /\ "dir" \in DOMAIN fcall.b
    /\ fcall.a["dir"].kind = "Directory" /\ fcall.b["dir"].kind = "Directory"
    /\ fcall.a["dir"].contents # fcall.b["dir"].contents
    /\ "foo.txt" \in DOMAIN fcall.a /\ "foo.txt" \in DOMAIN fcall.b
    /\ fcall.a["foo.txt"].kind = "File" /\ fcall.b["foo.txt"].kind = "Symlink"
    /\ Len(fret[1].events) >= 3
    /\ fret[1].events[Len(fret[1].events) - 1].ev = "node_removed"
    /\ fret[1].events[Len(fret[1].events)].ev = "node_added"
    /\ fret[1].events[Len(fret[1].events)].path = <<"foo.txt">>

\* A tree has been compared against itself, in one forest, and no callback failed.
ReflexiveCase ==
    /\ fcall.fn = "compare_same"
    /\ fret # <<>>
    /\ fcall.failAt = 0

\* C20: compare_trees(a, a) against the same forest emits nothing_changed and
\* nothing else, once for each top-level entry of a and for no deeper path: an
\* unchanged subdirectory is not entered (its subtree is not even looked up).
C20_DiffReflexive ==
    ReflexiveCase =>
        /\ fret[1].out = "ok"
        /\ \A i \in DOMAIN fret[1].events :
              /\ fret[1].events[i].ev = "nothing_changed"
              /\ Len(fret[1].events[i].path) = 1
              /\ fret[1].events[i].path[1] \in DOMAIN fcall.a
              /\ fret[1].events[i].new = Some(fcall.a[fret[1].events[i].path[1]])
        /\ \A n \in DOMAIN fcall.a :
              Cardinality({i \in DOMAIN fret[1].events :
                              fret[1].events[i].path = <<n>>}) = 1

\* A tree with a file and a directory of two entries was compared against
\* itself: two events, none for the directory's entries.
C20_Witness ==
    /\ ReflexiveCase
    /\ "foo.txt" \in DOMAIN fcall.a
    /\ "dir" \in DOMAIN fcall.a
    /\ fcall.a["dir"] = Node("Directory", "S5", "m1")
    /\ Len(fret[1].events) = 2
    /\ fret[1].events[1].path = <<"dir">>
    /\ fret[1].events[2].path = <<"foo.txt">>

\* Both trees hold a directory at dir, every tree is present and no callback fails.
DirectoryCase ==
    /\ CompareDone
    /\ ~fcall.missing
    /\ fcall.failAt = 0
    /\ "dir" \in DOMAIN fcall.a /\ "dir" \in DOMAIN fcall.b
    /\ fcall.a["dir"].kind = "Directory"
    /\ fcall.b["dir"].kind = "Directory"

\* The positions of the events for dir itself, and for the entries below it.
DirEvents(ev) ==
    {i \in DOMAIN fret[1].events :
        fret[1].events[i].path = <<"dir">> /\ fret[1].events[i].ev = ev}

BelowDir ==
    {i \in DOMAIN fret[1].events :
        Len(fret[1].events[i].path) = 2 /\ fret[1].events[i].path[1] = "dir"}

\* The events compare_trees emits for the two subtrees of dir on their own.
SubtreeEvents ==
    compare_trees(fcall.a["dir"].contents, Forest("A", fcall.a, FALSE),
                  fcall.b["dir"].contents, Forest("B", fcall.b, FALSE),
                  <<"dir">>, Callbacks(0)).events

\* C21: for two Directory nodes, the subtrees are compared when and only when
\* their references differ, and the events of that comparison all come before
\* the directory's own metadata_changed, which is emitted when and only when
\* the metadata differs; nothing_changed is emitted for the directory when and
\* only when neither differs, and then nothing below it is reported.
C21_DirectoryRecurseThenMetadata ==
    DirectoryCase =>
        LET node1 == fcall.a["dir"]
            node2 == fcall.b["dir"]
        IN /\ fret[1].out = "ok"
           /\ (node1.contents # node2.contents) <=> (BelowDir # {})
           /\ node1.contents # node2.contents =>
                 [k \in 1..Cardinality(BelowDir) |-> fret[1].events[k]] = SubtreeEvents
           /\ Cardinality(DirEvents("metadata_changed")) =
                 (IF node1.metadata # node2.metadata THEN 1 ELSE 0)
           /\ \A i \in BelowDir : \A j \in DirEvents("metadata_changed") : i < j
           /\ Cardinality(DirEvents("nothing_changed")) =
                 (IF node1.contents = node2.contents /\ node1.metadata = node2.metadata
                  THEN 1 ELSE 0)
           /\ DirEvents("nothing_changed") # {} => BelowDir = {}

\* A directory whose subtree and metadata both changed: two events from below
\* it, then its metadata_changed.
C21_Witness ==
    /\ DirectoryCase
    /\ fcall.a["dir"] = Node("Directory", "S2", "m1")
    /\ fcall.b["dir"] = Node("Directory", "S5", "m2")
    /\ Len(fret[1].events) >= 3
    /\ BelowDir = {1, 2}
    /\ DirEvents("metadata_changed") = {3}

\* The top-level names at which both trees hold a node, of different kinds.
TypeChanges ==
    {p \in DOMAIN fcall.a \cap DOMAIN fcall.b : fcall.a[p].kind # fcall.b[p].kind}

\* The positions of the events for path p and for the entries below it.
EventsAt(p) ==
    {i \in DOMAIN fret[1].events : fret[1].events[i].path[1] = p}

\* A comparison of a against b with every tree present has returned.
TypeCase ==
    /\ CompareDone
    /\ ~fcall.missing

\* C22: nodes of different kinds at one path are reported by type_changed alone,
\* whose default calls node_removed with the old node and the old forest and
\* then node_added with the new node and the new forest, for that very path and
\* nothing below it; when node_removed fails node_added is not called.
C22_TypeChangedRemovesThenAdds ==
    TypeCase =>
        \A p \in TypeChanges :
            LET at == EventsAt(p)
                first == CHOOSE i \in at : \A k \in at : i <= k
                removed == Event("node_removed", <<p>>, Some(fcall.a[p]), None,
                                 Some(Forest("A", fcall.a, FALSE)))
                added == Event("node_added", <<p>>, None, Some(fcall.b[p]),
                               Some(Forest("B", fcall.b, FALSE)))
            IN /\ at # {} => fret[1].events[first] = removed
               /\ (at # {} /\ first # fcall.failAt) =>
                     /\ at = {first, first + 1}
                     /\ fret[1].events[first + 1] = added
               /\ (at # {} /\ first = fcall.failAt) =>
                     /\ at = {first}
                     /\ fret[1].out = "err"
               /\ fret[1].out = "ok" => Cardinality(at) = 2

\* A file was replaced by a directory and a directory by a symlink: each is a
\* removal followed by an addition.
C22_Witness ==
    /\ TypeCase
    /\ fcall.failAt = 0
    /\ TypeChanges = {"dir", "foo.txt"}
    /\ fcall.a["dir"].kind = "Directory" /\ fcall.b["dir"].kind = "Symlink"
    /\ fcall.a["foo.txt"].kind = "File" /\ fcall.b["foo.txt"].kind = "Symlink"
    /\ Len(fret[1].events) = 4
    /\ fret[1].events[3].ev = "node_removed"
    /\ fret[1].events[4].ev = "node_added"

\* node_removed failed for a type change, and node_added was not called.
C22_WitnessRemovalFailed ==
    /\ TypeCase
    /\ fcall.failAt = 1
    /\ "dir" \in TypeChanges
    /\ "foo.txt" \in DOMAIN fcall.a \cap DOMAIN fcall.b
    /\ fret[1].out = "err"
    /\ Len(fret[1].events) = 1
    /\ fret[1].events[1].ev = "node_removed"

\* The last operation to return, and the name the running remove was given.
LastOp == log[Len(log)]

\* This step is the return of an operation.
Returns == Len(log') = Len(log) + 1

\* While remove(name) is at its backend removal the cache has no entry for name;
\* the eviction goes through whether or not the cache holds name; after a
\* remove that returned Ok neither the cache nor the backend has the object; a
\* successful read that follows a failed remove returns the object's content,
\* and unless it was a cache hit it downloaded the object.
RemoveStates ==
    mode = "Cached" =>
        /\ tpc[1] = "rm_backend" => ~CacheHas(cache, top[1].name)
        /\ tpc[1] = "rm_evict" => ENABLED (RemoveEvict(1) /\ tpc'[1] = "rm_backend")
        /\ (log # <<>> /\ tpc[1] = "idle" /\ LastOp.op = "remove" /\ LastOp.status = "ok") =>
              /\ ~CacheHas(cache, LastOp.name)
              /\ destination(LastOp.name) \notin DOMAIN store
        /\ \A j \in 2..Len(log) :
              (/\ Touches(j - 1, "remove", log[j].name)
               /\ log[j - 1].status = "err"
               /\ IsRead(j)
               /\ log[j].status = "ok") =>
                  /\ log[j].data = bound[log[j].name]
                  /\ ~log[j].hit => log[j].dl = DlBefore(j) + Len(log[j].data)

\* The eviction leaves the backend alone; a backend removal that fails leaves
\* the backend and the cache as they were, the entry evicted and the object in
\* place; and a read is a cache hit only when the cache held the entry.
RemoveSteps ==
    mode = "Cached" =>
        /\ tpc[1] = "rm_evict" => store' = store
        /\ (tpc[1] = "rm_backend" /\ Returns /\ log'[Len(log')].status = "err") =>
              /\ store' = store
              /\ cache' = cache
              /\ ~CacheHas(cache', top[1].name)
        /\ (Returns /\ log'[Len(log')].op = "read" /\ log'[Len(log')].hit) =>
              CacheHas(cache, top[1].name)

\* C23: in Cached mode remove(name) evicts name from the cache and then removes
\* destination(name) from the backend; the eviction succeeds when name is not
\* cached; when the backend removal fails after the eviction the object is
\* still in the backend and out of the cache, so the next read(name) fetches it
\* from the backend and returns its content; a remove that reported success
\* leaves no cache entry.
C23_RemoveEvictsThenRemoves == [][RemoveSteps]_vars /\ []RemoveStates

\* A cached object survived a failed remove: written and cached, the remove
\* failed, and the read that followed was not a cache hit but a download of
\* the object.
C23_Witness ==
    /\ mode = "Cached" /\ behavior = "Normal"
    /\ Len(log) = 3
    /\ log[1].op = "write" /\ log[1].status = "ok"
    /\ Len(log[1].arg) >= 1 /\ Len(log[1].arg) <= cache_size
    /\ Touches(2, "remove", log[1].name) /\ log[2].status = "err"
    /\ Touches(3, "read", log[1].name) /\ log[3].status = "ok"
    /\ ~log[3].hit
    /\ log[3].data = log[1].arg
    /\ log[3].dl = Len(log[1].arg)
    /\ CacheHas(cache, log[1].name)

\* No operation is running.
Quiescent == \A t \in Threads : tpc[t] = "idle"

\* A read(name) and a remove(name) ran on two threads and both have returned
\* Ok, the read with the object.
RaceDone ==
    /\ mode = "Cached"
    /\ Quiescent
    /\ Len(log) = 2
    /\ log[1].name = log[2].name
    /\ {log[1].op, log[2].op} = {"read", "remove"}
    /\ log[1].status = "ok" /\ log[2].status = "ok"

\* C24: in Cached mode, once a read(name) and a remove(name) that ran on two
\* threads have both finished, the cache holds no entry whose object is absent
\* from the backend, so a read after the completed remove cannot be served
\* cached content.
C24_NoStaleEntryAfterRace ==
    (mode = "Cached" /\ Quiescent) =>
        \A e \in DOMAIN cache : destination(cache[e].name) \in DOMAIN store

\* The remove ran between the read's backend.read and its cache.insert: the
\* object is gone from the backend and in the cache.
C24_StaleEntry ==
    /\ RaceDone
    /\ destination(log[1].name) \notin DOMAIN store
    /\ CacheHas(cache, log[1].name)

\* A read called after both had returned was served the removed object from
\* the cache.
C24_StaleRead ==
    /\ mode = "Cached"
    /\ Quiescent
    /\ Len(log) = 3
    /\ Touches(1, "read", log[3].name) /\ log[1].status = "ok" /\ ~log[1].hit
    /\ Touches(2, "remove", log[3].name) /\ log[2].status = "ok"
    /\ IsRead(3) /\ log[3].status = "ok" /\ log[3].hit
    /\ log[3].dl = log[1].dl
    /\ destination(log[3].name) \notin DOMAIN store

\* The packs some index of the set I references.
Covered(I) == UNION {i.packs : i \in I}

\* The packs have been listed.
PacksListed == pc \in {"scan", "upload", "join", "retire"} \/ scanTodo # {}

\* One step of a live rebuild next to a backup writer: an index that disappears
\* is one the run enumerated at its start, the packs are listed only once that
\* set has been enumerated (it does not change afterwards), and no pack that an
\* index referenced is left without an index referencing it.
CoverageStep ==
    ~dry_run =>
        /\ (indexes \ indexes') \subseteq superseded
        /\ PacksListed => (ipc # "unspawned" /\ superseded' = superseded)
        /\ Covered(indexes) \subseteq Covered(indexes')

\* C25: a live rebuild removes only the indexes it enumerated at its start and
\* lists the packs only after enumerating them, and, whatever a backup writer
\* that writes its packs and then its index does meanwhile, every pack
\* referenced by an index of the repository is referenced by an index of the
\* repository in every later state.
C25_CoverageNeverShrinks == [][CoverageStep]_vars

\* The writer's index was enumerated and removed by a live rebuild that ended
\* Ok; the writer's packs are referenced by the new index.
C25_Witness ==
    /\ ~dry_run
    /\ pc = "done" /\ err = ""
    /\ WriterIndex \in superseded
    /\ WriterIndex \notin indexes
    /\ NewIndex \in indexes
    /\ WriterPacks \subseteq Covered(indexes)
    /\ packs0 # {}

\* Some thread of the rebuild can take a step.
CanStep == ENABLED (MainThread \/ Scanners \/ Indexer)

\* C26: the rebuild never deadlocks and, its threads being scheduled fairly,
\* always ends: until run() has returned one of its threads can take a step,
\* the uploader receives only after the scan has returned, and run() eventually
\* returns; when it returns Ok the upload and the join are done and, in a live
\* run, every enumerated index is retired.
C26_RebuildTerminates ==
    /\ [](pc # "done" => CanStep)
    /\ [](upload_msg # {} => (scanTodo = {} /\ scanBusy = {} /\ ~tx_open))
    /\ <>(pc = "done")
    /\ []((pc = "done" /\ err = "") =>
            /\ upload_ret = "ok"
            /\ join_ret = "true"
            /\ ~dry_run => indexes \cap superseded = {})

\* A run over more packs than the pack queue holds ended Ok.
C26_Witness ==
    /\ pc = "done" /\ err = ""
    /\ Cardinality(index_packs) > QueueCap
    /\ Cardinality(packs0) > QueueCap
    /\ ~dry_run
    /\ superseded # {}

\* C27: when the indexer is joined with the result false (it built no index, no
\* pack having reached it), run() returns the error "No new index built" and
\* has removed none of the indexes, in a live run as in a dry run: no
\* remove_index call was made and every index enumerated at the start, like
\* every index of the repository at the start, is still present. No other path
\* gives that error.
C27_NoIndexBuiltRemovesNothing ==
    /\ join_ret = "false" =>
          /\ pc = "done"
          /\ err = "no_index"
          /\ index_packs = {}
          /\ uploaded = {}
          /\ removeCalls = 0
          /\ toRemove = {}
          /\ superseded \subseteq indexes
          /\ indexes0 \subseteq indexes
    /\ err = "no_index" => join_ret = "false"

\* A live rebuild of a repository that has an index and no pack failed with
\* "No new index built"; the index is still there.
C27_Witness ==
    /\ ~dry_run
    /\ join_ret = "false"
    /\ err = "no_index"
    /\ superseded # {}
    /\ superseded \subseteq indexes
    /\ packs0 = {}

====
